---- MODULE Spec2Model ----
(***************************************************************************)
(* Model of pyrtable's record lifecycle: field descriptors                 *)
(* (fields/base.py, fields/basic.py), records (record.py), the contexts    *)
(* that save and delete them (context/base.py) and record-link             *)
(* collections (fields/recordlink.py).                                     *)
(***************************************************************************)
EXTENDS Integers, Sequences, FiniteSets, TLC

(***************************************************************************)
(* Bounds                                                                  *)
(***************************************************************************)
\* number of record objects that can be alive at once
NumRecs == 2
\* number of distinct server identifiers
NumIds == 2
\* longest record-link collection explored
MaxColl == 3
MaxObjs == 2
MaxDerefs == 3
MaxFilterSize == 6
MaxPages == 3
MaxQueries == 3
MaxNegations == 4
MaxRawSize == 4
\* objects the record with mutable values can refer to, and one to spare
MaxCells == 5

Recs == 1..NumRecs
NoRec == 0
Ids == 1..NumIds
NoId == 0

(***************************************************************************)
(* Python / JSON values.  Every value is a record with the same three      *)
(* fields so that any two values can be compared.                          *)
(***************************************************************************)
PyNone == [k |-> "none", n |-> 0, s |-> ""]
PyStr(s) == [k |-> "str", n |-> 0, s |-> s]
PyInt(n) == [k |-> "int", n |-> n, s |-> ""]
PyFloat(n) == [k |-> "float", n |-> n, s |-> ""]
\* math.nan
PyNaN == [k |-> "float", n |-> 0, s |-> "nan"]
\* the wire object {"specialValue": "NaN"}
WireNaN == [k |-> "dict", n |-> 0, s |-> "NaN"]
\* any other wire object, e.g. {"error": "#ERROR"}
WireBadDict == [k |-> "dict", n |-> 0, s |-> "other"]

\* True and False, which Python counts among the integers
PyBool(b) == [k |-> "bool", n |-> IF b THEN 1 ELSE 0, s |-> ""]
\* datetime.date, by the number of its day
PyDate(d) == [k |-> "date", n |-> d, s |-> ""]
\* datetime.datetime: tz is "naive", "utc" or "plus1"; n is the hour on the
\* value's own clock when naive, and the hour in UTC when aware
PyDateTime(n, tz) == [k |-> "datetime", n |-> n, s |-> tz]
\* a member of an Enum class
PyEnum(name) == [k |-> "enum", n |-> 0, s |-> name]

IsNumber(v) == v.k \in {"int", "float", "bool"} /\ v.s = ""

\* Python's ==: numbers compare by value across bool, int and float, nan is
\* equal to nothing (itself included), aware datetimes compare by the instant
\* they name, everything else compares structurally.
PyEq(a, b) ==
    IF a = PyNaN \/ b = PyNaN THEN FALSE
    ELSE IF IsNumber(a) /\ IsNumber(b) THEN a.n = b.n
    ELSE IF a.k = "datetime" /\ b.k = "datetime" /\ a.s # "naive" /\ b.s # "naive"
         THEN a.n = b.n
    ELSE a = b

\* Python truthiness of the values used here
Truthy(v) ==
    CASE v.k = "none" -> FALSE
      [] v.k = "str" -> v.s # ""
      [] v.k = "int" -> v.n # 0
      [] v.k = "bool" -> v.n # 0
      [] v.k = "float" -> v.s = "nan" \/ v.n # 0
      [] OTHER -> TRUE

(***************************************************************************)
(* The record type: three fields, two declared and one inherited.          *)
(*   class Base(BaseRecord):                                               *)
(*       name  = IntegerField('Old name')                                  *)
(*       count = IntegerField('Count', read_only=True)                     *)
(*       label = 'a plain attribute'                                       *)
(*   class Rec(Base):                                                      *)
(*       name  = StringField('Name')                                       *)
(*       score = FloatField('Score')                                       *)
(***************************************************************************)
\* an item of a class's __dict__: the attribute's name and, when the value
\* is a field, the field's class ("" when it is anything else)
Decl(attr, cls) == [attr |-> attr, cls |-> cls]

\* the __dict__ of each class of Rec.__mro__, in order: Rec, Base, BaseRecord
ClassDicts ==
    <<<<Decl("Meta", ""), Decl("name", "String"), Decl("score", "Float")>>,
      <<Decl("name", "Integer"), Decl("count", "Integer"), Decl("label", "")>>,
      <<Decl("meta", ""), Decl("objects", "")>>>>

MroItems == ClassDicts[1] \o ClassDicts[2] \o ClassDicts[3]

\* isinstance(field, BaseField)
IsField(item) == item.cls # ""

\* (mutant) every field met is yielded, seen before or not
YieldedEvenIfSeen(items, i) == IsField(items[i])
\* iter_fields yields item i: it is a field and no field of its name was
\* yielded before
Yielded(items, i) ==
    /\ IsField(items[i])
    /\ \A j \in 1..(i - 1) : ~(IsField(items[j]) /\ items[j].attr = items[i].attr)

\* what iter_fields yields of the items from position i on
RECURSIVE IterFrom(_, _)
IterFrom(items, i) ==
    IF i > Len(items) THEN <<>>
    ELSE (IF Yielded(items, i) THEN <<items[i]>> ELSE <<>>) \o IterFrom(items, i + 1)

\* list(Rec.iter_fields())
iter_fields == IterFrom(MroItems, 1)

FieldOrder == [i \in 1..Len(iter_fields) |-> iter_fields[i].attr]
FieldNames == {FieldOrder[i] : i \in 1..Len(FieldOrder)}

FieldType(f) ==
    CASE f = "name" -> "String"
      [] f = "score" -> "Float"
      [] f = "count" -> "Integer"
      [] f = "active" -> "Boolean"
      [] f = "born" -> "Date"
      [] f = "seen" -> "DateTime"
      [] f = "colour" -> "SingleSelection"

column_name(f) ==
    CASE f = "name" -> "Name"
      [] f = "score" -> "Score"
      [] f = "count" -> "Count"

read_only(f) == f = "count"

FieldIndex(f) == CHOOSE i \in 1..Len(FieldOrder) : FieldOrder[i] = f

\* the texts of the days and of the hours, as strptime reads them and format
\* writes them ('%Y-%m-%d' and '%Y-%m-%dT%H:%M:%S.%fZ')
Days == 1..2
Hours == 0..3
DateText(d) == "2020-01-0" \o ToString(d)
DateTimeText(h) == "2020-01-05T1" \o ToString(h) \o ":20:40.123456Z"

IsDateText(w) == w.k = "str" /\ \E d \in Days : w.s = DateText(d)
IsDateTimeText(w) == w.k = "str" /\ \E h \in Hours : w.s = DateTimeText(h)
ParseDate(w) == CHOOSE d \in Days : w.s = DateText(d)
ParseDateTime(w) == CHOOSE h \in Hours : w.s = DateTimeText(h)

\* SingleSelectionField(choices=Colour), Colour being the Enum class of the
\* one member RED = 'red': the field's _raw_to_value.get(w, w) and
\* _value_to_raw.get(v, v)
raw_to_value(w) == IF w = PyStr("red") THEN PyEnum("RED") ELSE w
value_to_raw(v) == IF v = PyEnum("RED") THEN PyStr("red") ELSE v

\* decode_from_airtable raises ValueError
DecodeRaises(f, w) ==
    \/ FieldType(f) \in {"Integer", "Float"} /\ w.k = "dict" /\ w # WireNaN
    \/ FieldType(f) = "Date" /\ Truthy(w) /\ ~IsDateText(w)
    \/ FieldType(f) = "DateTime" /\ Truthy(w) /\ ~IsDateTimeText(w)

decode_from_airtable(f, w) ==
    CASE FieldType(f) = "String" -> IF Truthy(w) THEN w ELSE PyStr("")
      [] FieldType(f) = "Integer" ->
            IF w = PyNone THEN PyNone
            ELSE IF w = WireNaN THEN PyNone
            ELSE PyInt(w.n)
      [] FieldType(f) = "Float" ->
            IF w = PyNone THEN PyNone
            ELSE IF w = WireNaN THEN PyNaN
            ELSE IF w = PyNaN THEN PyNaN
            ELSE PyFloat(w.n)
      [] FieldType(f) = "Boolean" -> PyBool(Truthy(w))
      [] FieldType(f) = "Date" -> IF Truthy(w) THEN PyDate(ParseDate(w)) ELSE PyNone
      [] FieldType(f) = "SingleSelection" -> raw_to_value(w)

\* DateTimeField.decode_from_airtable; zone: the zoneinfo module was found
decode_datetime(w, zone) ==
    IF ~Truthy(w) THEN PyNone
    ELSE PyDateTime(ParseDateTime(w), IF zone THEN "utc" ELSE "naive")

encode_field(f, v) ==
    CASE FieldType(f) = "String" -> IF Truthy(v) THEN v ELSE PyNone
      [] FieldType(f) = "Integer" -> v
      [] FieldType(f) = "Float" -> v
      [] FieldType(f) = "Boolean" -> IF Truthy(v) THEN PyBool(TRUE) ELSE PyNone
      [] FieldType(f) = "Date" -> IF v = PyNone THEN PyNone ELSE PyStr(DateText(v.n))
      [] FieldType(f) = "SingleSelection" -> value_to_raw(v)

\* DateTimeField.encode_to_airtable; offset: the hours the local clock is
\* ahead of UTC, which astimezone takes a naive value to be on
encode_datetime(v, zone, offset) ==
    IF v = PyNone THEN PyNone
    ELSE IF zone
         THEN PyStr(DateTimeText(IF v.s = "naive" THEN v.n - offset ELSE v.n))
         ELSE PyStr(DateTimeText(IF v.s = "plus1" THEN v.n + 1 ELSE v.n))

validate(f, v) ==
    CASE FieldType(f) = "String" -> IF Truthy(v) THEN v ELSE PyStr("")
      [] OTHER -> v

clone_value(f, v) == v

is_same_value(f, lhs, rhs) == PyEq(lhs, rhs)

\* the value a field takes when its column is absent from the wire record
Blank(f) == decode_from_airtable(f, PyNone)

(***************************************************************************)
(* Inputs                                                                  *)
(***************************************************************************)
\* a wire record's "fields" object; an absent column reads as None
Wire(n, s, c) == [name |-> n, score |-> s, count |-> c]
BlankWire == Wire(PyNone, PyNone, PyNone)

\* the wire records the server answers with
WireFields ==
    {BlankWire,
     Wire(PyStr("x"), PyNone, PyNone),
     Wire(PyNone, PyInt(1), PyNone),
     Wire(PyNone, WireNaN, PyNone),
     Wire(PyStr("x"), PyInt(1), PyInt(1)),
     Wire(PyNone, PyNone, WireNaN),
     Wire(PyStr("x"), WireBadDict, PyInt(1))}

WellFormed(d) == \A f \in FieldNames : ~DecodeRaises(f, d[f])

\* values a caller assigns to a field
AssignValues(f) ==
    CASE f = "name" -> {PyNone, PyStr("x")}
      [] f = "score" -> {PyNone, PyFloat(1), PyNaN}
      [] f = "count" -> {PyNone, PyInt(1)}

(***************************************************************************)
(* State                                                                   *)
(***************************************************************************)
VARIABLES
    alive,        \* alive[r]: record object r has been constructed
    id,           \* BaseRecord._id (NoId is None)
    ts,           \* BaseRecord._created_timestamp is not None
    values,       \* BaseRecord._fields_values
    orig,         \* BaseRecord._orig_fields_values
    fieldRecord,  \* BaseField._record, shared by every instance of the type
    ctx,          \* the default context: "Base" or "SimpleCaching"
    cache,        \* SimpleCachingContext._cache: identifier -> record object
    coll,         \* _RecordLinkCollection._items of one link collection
    sent,         \* the requests issued by the last operation
    last,         \* the last operation: what was called, on what, the outcome
    slink,        \* the value an owning record holds in a SingleRecordLinkField
    owner,        \* the base and table the owning record reports
    target,       \* the base and table of the linked class (its Meta)
    store,        \* where the server holds linked records: <<base, identifier>>
    objs,         \* the linked-class record objects made so far: base, table, id
    lcache,       \* SimpleCachingContext._cache over the linked class
    derefs,       \* what the accesses to the held link have done so far
    qs,           \* the RecordQuery objects made so far
    fheap,        \* the Q objects held as RecordQuery._filter
    pager,        \* the frame of one BaseContext.fetch_many generator
    ftree,        \* a filter object under composition
    formula,      \* the formula build_formula last returned for ftree
    negs,         \* the filter ftree was made from by negations, and how many
    trip,         \* one value on its way through validate, encode and decode
    url,          \* the URL build_url last returned ("" when it raised)
    status,       \* the class of the status of the response to the last save
    mut,          \* a record with fields whose values are mutable objects
    calls         \* the calls of fetch_single under way, and the GETs issued

recVars == <<alive, id, ts, values, orig, fieldRecord, ctx, cache, coll>>
linkVars == <<slink, owner, target, store, objs, lcache, derefs>>
queryVars == <<qs, fheap>>
filterVars == <<ftree, formula, negs>>
extraVars == <<trip, url, status, mut, calls>>
otherVars == <<linkVars, queryVars, pager, filterVars, extraVars>>

vars == <<recVars, sent, last, otherVars>>

Op(op, r, f, outcome) ==
    [op |-> op, rec |-> r, fld |-> f, lid |-> NoId, outcome |-> outcome]

\* an operation on the link collection, given a record r or an identifier i
LinkOp(op, r, i) ==
    [op |-> op, rec |-> r, fld |-> "", lid |-> i, outcome |-> "ok"]

Request(method, rid, payload) == [method |-> method, rid |-> rid, payload |-> payload]

BlankValues == [f \in FieldNames |-> Blank(f)]

InitRecords ==
    /\ alive = [r \in Recs |-> FALSE]
    /\ id = [r \in Recs |-> NoId]
    /\ ts = [r \in Recs |-> FALSE]
    /\ values = [r \in Recs |-> BlankValues]
    /\ orig = [r \in Recs |-> BlankValues]
    /\ fieldRecord = NoRec
    /\ ctx \in {"Base", "SimpleCaching"}
    /\ cache = [i \in Ids |-> NoRec]
    /\ coll = <<>>
    /\ sent = <<>>
    /\ last = Op("init", NoRec, "", "ok")

(***************************************************************************)
(* The objects beside the records, as construction leaves them             *)
(***************************************************************************)
\* base and table identifiers; NoBase is None for either
Bases == {"appClass", "appOther"}
Tables == {"tblLinked", "tblOther"}
NoBase == ""

\* BaseAndTable(base_id, table_id)
Address(b, t) == [base |-> b, table |-> t]

\* linked-class record objects are numbered as they are made; NoObj is None
NoObj == 0

\* the value None of a link field
NoLink == [present |-> FALSE, lid |-> NoId, rec |-> NoObj, base |-> NoBase, table |-> NoBase]

\* no access has been made to the held link, which is itself yet to be made
NoDerefs == [born |-> "none", returned |-> 0, fetched |-> 0, first |-> NoObj]

\* the linked class gives a base and a table in its Meta, or leaves them out
Targets == {Address(b, t) : b \in {"appClass", NoBase}, t \in {"tblLinked", NoBase}}

LinkIdle ==
    /\ slink = NoLink
    /\ owner = Address(NoBase, NoBase)
    /\ objs = <<>>
    /\ lcache = [key \in Bases \X Ids |-> NoObj]
    /\ derefs = NoDerefs

\* RecordQuery(): the query every record class exposes as `objects`; scoped
\* and fromNone remember which methods the query was derived through
Objects ==
    [initialised |-> FALSE, empty |-> FALSE, flt |-> 0, base |-> NoBase, table |-> NoBase,
     scoped |-> FALSE, fromNone |-> FALSE]

QueryIdle ==
    /\ qs = <<Objects>>
    /\ fheap = <<>>

\* no fetch_many generator has been made
PagerIdle ==
    pager = [pc |-> "idle", pages |-> <<>>, params |-> <<>>, page |-> 0, pos |-> 0,
             yielded |-> <<>>, requests |-> <<>>]

\* no filter object, and the formula of none
NoFilter == [k |-> "none", name |-> "", kids |-> <<>>]
NoFormula == [op |-> "none", text |-> "", args |-> <<>>]

\* the filter f, negated n times
Negations(f, n) == [base |-> f, n |-> n]

FilterIdle ==
    /\ ftree = NoFilter
    /\ formula = NoFormula
    /\ negs = Negations(NoFilter, 0)

\* no value is on its way through a field
NoTrip ==
    [stage |-> "idle", fld |-> "", zone |-> FALSE, offset |-> 0,
     val |-> PyNone, wire |-> PyNone, back |-> PyNone]

\* the fields whose values are mutable objects: a MultipleSelectionField and
\* a MultipleRecordLinkField
MutableFields == <<"tags", "links">>
MutableNames == {MutableFields[i] : i \in 1..Len(MutableFields)}

Cells == 1..MaxCells
NoCell == 0

\* a ValueSet with _items S, a _RecordLinkCollection with _items q, no object
ValueSetObj(S) == [k |-> "ValueSet", set |-> S, seq |-> <<>>]
CollectionObj(q) == [k |-> "Collection", set |-> {}, seq |-> q]
NoObject == [k |-> "free", set |-> {}, seq |-> <<>>]

\* no record with mutable values has been constructed
NoMut ==
    [alive |-> FALSE, persisted |-> FALSE, heap |-> [c \in Cells |-> NoObject],
     val |-> [f \in MutableNames |-> NoCell], orig |-> [f \in MutableNames |-> NoCell]]

\* the callers that run fetch_single at the same time
Callers == {"A", "B"}

\* no caller has called, no GET was issued
NoCalls ==
    [who |-> [c \in Callers |-> [pc |-> "idle", wid |-> NoId, rec |-> NoRec]],
     gets |-> [i \in Ids |-> 0]]

ExtraIdle ==
    /\ trip = NoTrip
    /\ url = ""
    /\ status = "none"
    /\ mut = NoMut
    /\ calls = NoCalls

Init ==
    /\ InitRecords
    /\ LinkIdle
    /\ target = Address("appClass", "tblLinked")
    /\ store = {}
    /\ QueryIdle
    /\ PagerIdle
    /\ FilterIdle
    /\ ExtraIdle

(***************************************************************************)
(* BaseRecord                                                              *)
(***************************************************************************)
\* BaseRecord._clear_dirty_fields: the snapshot taken of the values vals
ClearedOrig(vals) == [f \in FieldNames |-> clone_value(f, vals[f])]

\* index of the first field whose decoding raises, 0 when none does
FirstBad(data) ==
    IF WellFormed(data) THEN 0
    ELSE CHOOSE i \in 1..Len(FieldOrder) :
            /\ DecodeRaises(FieldOrder[i], data[FieldOrder[i]])
            /\ \A j \in 1..(i - 1) : ~DecodeRaises(FieldOrder[j], data[FieldOrder[j]])

\* the field values consume_airtable_data leaves in record r: every field is
\* decoded in declaration order, up to the first one that raises
ConsumedValues(r, data) ==
    [f \in FieldNames |->
        IF FirstBad(data) = 0 \/ FieldIndex(f) < FirstBad(data)
        THEN decode_from_airtable(f, data[f])
        ELSE values[r][f]]

\* BaseRecord.consume_airtable_data(data) on record r, data carrying the
\* identifier wid
consume_airtable_data(r, wid, data) ==
    /\ id' = [id EXCEPT ![r] = wid]
    /\ ts' = [ts EXCEPT ![r] = TRUE]
    /\ values' = [values EXCEPT ![r] = ConsumedValues(r, data)]
    /\ orig' = [orig EXCEPT ![r] =
                  IF WellFormed(data) THEN ClearedOrig(ConsumedValues(r, data))
                  ELSE orig[r]]

\* the fields encode_to_airtable puts in its result
EncodedNames(r, include_non_dirty_fields) ==
    {f \in FieldNames :
        /\ ~read_only(f)
        /\ \/ include_non_dirty_fields
           \/ ~is_same_value(f, values[r][f], orig[r][f])}

\* BaseRecord.encode_to_airtable: a mapping column name -> wire value, as
\* the set of its pairs
encode_to_airtable(r, include_non_dirty_fields) ==
    {<<column_name(f), encode_field(f, values[r][f])>> :
        f \in EncodedNames(r, include_non_dirty_fields)}

\* BaseField.__set__ raises AttributeError
SetRaises(r, f) == read_only(f) /\ id[fieldRecord] # NoId

\* record_cls(): BaseRecord.__new__ binds every field to the new instance,
\* __init__ fills the values from absence and takes the snapshot
Construct(r) ==
    /\ ~alive[r]
    /\ alive' = [alive EXCEPT ![r] = TRUE]
    /\ fieldRecord' = r
    /\ id' = [id EXCEPT ![r] = NoId]
    /\ ts' = [ts EXCEPT ![r] = FALSE]
    /\ values' = [values EXCEPT ![r] = BlankValues]
    /\ orig' = [orig EXCEPT ![r] = ClearedOrig(BlankValues)]
    /\ sent' = <<>>
    /\ last' = Op("construct", r, "", "ok")
    /\ UNCHANGED <<ctx, cache, coll>>
    /\ UNCHANGED otherVars

\* record.f = v
Assign(r, f, v) ==
    /\ alive[r]
    /\ sent' = <<>>
    /\ IF SetRaises(r, f)
       THEN /\ last' = Op("assign", r, f, "raised")
            /\ UNCHANGED values
       ELSE /\ last' = Op("assign", r, f, "ok")
            /\ values' = [values EXCEPT ![r][f] = validate(f, v)]
    /\ UNCHANGED <<alive, id, ts, orig, fieldRecord, ctx, cache, coll>>
    /\ UNCHANGED otherVars

\* record.consume_airtable_data({id: wid, createdTime: ..., fields: data})
Hydrate(r, wid, data) ==
    /\ alive[r]
    /\ consume_airtable_data(r, wid, data)
    /\ sent' = <<>>
    /\ last' = Op("hydrate", r, "", IF WellFormed(data) THEN "ok" ELSE "raised")
    /\ UNCHANGED <<alive, fieldRecord, ctx, cache, coll>>
    /\ UNCHANGED otherVars

(***************************************************************************)
(* BaseContext and SimpleCachingContext                                    *)
(***************************************************************************)
\* identifiers nothing in the client refers to: the ones a create can return
ReferencedIds ==
    {id[r] : r \in {x \in Recs : alive[x]}}
        \cup {coll[i].lid : i \in 1..Len(coll)}
        \cup {i \in Ids : cache[i] # NoRec}
FreshIds == Ids \ ReferencedIds

\* (mutant) the key is set only when the cache does not hold it
CacheAfterSaveKeepsOld(r, rid) ==
    IF ctx = "SimpleCaching" /\ cache[rid] = NoRec THEN [cache EXCEPT ![rid] = r] ELSE cache
\* SimpleCachingContext.save: the cache after a save that did not raise
CacheAfterSave(r, rid) ==
    IF ctx = "SimpleCaching" THEN [cache EXCEPT ![rid] = r] ELSE cache

\* the responses to a create or an update: done, or refused with 400..499
Statuses == {"2xx", "4xx"}

\* (mutant) no response makes it raise
throw_on_response_error_never(st) == FALSE
\* BaseContext._throw_on_response_error raises
throw_on_response_error(st) == st = "4xx"

\* BaseContext._create; answers are the "fields" objects the server may return
Create(r, answers) ==
    /\ sent' = <<Request("POST", NoId, encode_to_airtable(r, FALSE))>>
    /\ \E st \in Statuses :
         /\ status' = st
         /\ IF throw_on_response_error(st)
            THEN /\ last' = Op("create", r, "", "raised")
                 /\ UNCHANGED <<id, ts, values, orig, cache>>
            ELSE \E wid \in FreshIds, data \in answers :
                     /\ consume_airtable_data(r, wid, data)
                     /\ IF WellFormed(data)
                        THEN /\ last' = Op("create", r, "", "ok")
                             /\ cache' = CacheAfterSave(r, wid)
                        ELSE /\ last' = Op("create", r, "", "raised")
                             /\ UNCHANGED cache

\* (mutant) _update without its early return
UpdateNeverSkips(r) == FALSE
\* BaseContext._update returns before any request
UpdateSkipsRequest(r) == encode_to_airtable(r, FALSE) = {}

\* BaseContext._update
Update(r) ==
    IF UpdateSkipsRequest(r)
    THEN /\ sent' = <<>>
         /\ status' = "none"
         /\ last' = Op("update", r, "", "ok")
         /\ cache' = CacheAfterSave(r, id[r])
         /\ UNCHANGED <<id, ts, values, orig>>
    ELSE /\ sent' = <<Request("PATCH", id[r], encode_to_airtable(r, FALSE))>>
         /\ \E st \in Statuses :
              /\ status' = st
              /\ IF throw_on_response_error(st)
                 THEN /\ last' = Op("update", r, "", "raised")
                      /\ UNCHANGED <<id, ts, values, orig, cache>>
                 ELSE /\ orig' = [orig EXCEPT ![r] = ClearedOrig(values[r])]
                      /\ last' = Op("update", r, "", "ok")
                      /\ cache' = CacheAfterSave(r, id[r])
                      /\ UNCHANGED <<id, ts, values>>

\* context.save(record_cls, record)
Save(r, answers) ==
    /\ alive[r]
    /\ IF id[r] = NoId THEN Create(r, answers) ELSE Update(r)
    /\ UNCHANGED <<alive, fieldRecord, ctx, coll>>
    /\ UNCHANGED <<linkVars, queryVars, pager, filterVars, trip, url, mut, calls>>

\* the requests delete_id issues: BaseContext.delete_id sends one DELETE;
\* SimpleCachingContext.delete_id calls the coroutine function of its base
\* class without awaiting it, so that body never runs
DeleteIdRequests(c, rid) ==
    IF c = "Base" THEN <<Request("DELETE", rid, {})>> ELSE <<>>

\* SimpleCachingContext.delete_id pops the key before anything else
CacheAfterDeleteId(rid) ==
    IF ctx = "SimpleCaching" THEN [cache EXCEPT ![rid] = NoRec] ELSE cache

\* (mutant) delete takes a fresh snapshot of the current values instead
DeletedOrigFromValues(r) == [f \in FieldNames |-> clone_value(f, values[r][f])]
\* the snapshot BaseContext.delete leaves: every field decoded from absence
DeletedOrig(r) == [f \in FieldNames |-> decode_from_airtable(f, PyNone)]

\* context.delete(record_cls, record)
Delete(r) ==
    /\ alive[r]
    /\ IF id[r] = NoId
       THEN /\ sent' = <<>>
            /\ last' = Op("delete", r, "", "noop")
            /\ UNCHANGED <<id, ts, orig, cache>>
       ELSE /\ sent' = DeleteIdRequests(ctx, id[r])
            /\ cache' = CacheAfterDeleteId(id[r])
            /\ \/ \* 4xx response to the request, when one was sent
                  /\ DeleteIdRequests(ctx, id[r]) # <<>>
                  /\ last' = Op("delete", r, "", "raised")
                  /\ UNCHANGED <<id, ts, orig>>
               \/ /\ id' = [id EXCEPT ![r] = NoId]
                  /\ ts' = [ts EXCEPT ![r] = FALSE]
                  /\ orig' = [orig EXCEPT ![r] = DeletedOrig(r)]
                  /\ last' = Op("delete", r, "", "ok")
    /\ UNCHANGED <<alive, values, fieldRecord, ctx, coll>>
    /\ UNCHANGED otherVars

\* The lifecycle of one record object, under either context.
TheRec == CHOOSE r \in Recs : \A q \in Recs : r <= q

Next ==
    \/ Construct(TheRec)
    \/ \E f \in FieldNames : \E v \in AssignValues(f) : Assign(TheRec, f, v)
    \/ \E wid \in Ids, data \in WireFields : Hydrate(TheRec, wid, data)
    \/ Save(TheRec, WireFields)
    \/ Delete(TheRec)

Spec == Init /\ [][Next]_vars

\* Several record objects of the type, which share its field descriptors;
\* the inputs are the ones the read-only field is sensitive to.
NextShared ==
    \/ \E r \in Recs : Construct(r)
    \/ \E r \in Recs, v \in AssignValues("count") : Assign(r, "count", v)
    \/ \E r \in Recs, wid \in Ids : Hydrate(r, wid, BlankWire)
    \/ \E r \in Recs : Delete(r)

SpecShared == Init /\ [][NextShared]_vars

(***************************************************************************)
(* context.fetch_single                                                    *)
(***************************************************************************)
\* SimpleCachingContext.fetch_single answers from its cache
FetchHitsCache(wid) == ctx = "SimpleCaching" /\ cache[wid] # NoRec

\* context.fetch_single(record_id=wid): the record comes from the cache, or
\* is a new record object hydrated from the server's answer
FetchSingle(wid, data) ==
    /\ UNCHANGED otherVars
    /\ IF FetchHitsCache(wid)
       THEN /\ sent' = <<>>
            /\ last' = Op("fetch", cache[wid], "", "ok")
            /\ UNCHANGED <<alive, id, ts, values, orig, fieldRecord, ctx, cache, coll>>
       ELSE /\ sent' = <<Request("GET", wid, {})>>
            /\ \/ \* 4xx response
                  /\ last' = Op("fetch", NoRec, "", "raised")
                  /\ UNCHANGED <<alive, id, ts, values, orig, fieldRecord, cache>>
               \/ \E r \in Recs :
                    /\ ~alive[r]
                    /\ alive' = [alive EXCEPT ![r] = TRUE]
                    /\ fieldRecord' = r
                    /\ consume_airtable_data(r, wid, data)
                    /\ IF WellFormed(data)
                       THEN /\ last' = Op("fetch", r, "", "ok")
                            /\ cache' = CacheAfterSave(r, wid)
                       ELSE /\ last' = Op("fetch", r, "", "raised")
                            /\ UNCHANGED cache
            /\ UNCHANGED <<ctx, coll>>

\* the answers of the server to the callers' requests
CallerWires == {BlankWire, Wire(PyStr("x"), PyNone, PyNone), Wire(PyStr("x"), WireBadDict, PyInt(1))}

\* a caller finds the record in the cache, looked up under the lock
CallerFinds(wid) == FetchHitsCache(wid)

\* caller c enters fetch_single(record_id=wid) and runs to its first await:
\* it returns what the cache holds, or goes on to BaseContext.fetch_single,
\* whose GET is then on its way
CallerEnters(c, wid) ==
    /\ calls.who[c].pc = "idle"
    /\ IF CallerFinds(wid)
       THEN /\ calls' = [calls EXCEPT !.who[c] = [pc |-> "returned", wid |-> wid, rec |-> cache[wid]]]
            /\ sent' = <<>>
            /\ last' = Op("fetch", cache[wid], "", "ok")
       ELSE /\ calls' = [calls EXCEPT !.who[c] = [pc |-> "awaiting", wid |-> wid, rec |-> NoRec],
                                      !.gets[wid] = @ + 1]
            /\ sent' = <<Request("GET", wid, {})>>
            /\ last' = Op("fetch", NoRec, "", "awaiting")
    /\ UNCHANGED <<recVars, linkVars, queryVars, pager, filterVars, trip, url, status, mut>>

\* the answer to caller c's GET is in and the caller runs to its end: it
\* raises on 4xx, else makes a record of the answer, which goes into the
\* cache under SimpleCachingContext, and returns it
CallerResumes(c, data) ==
    /\ calls.who[c].pc = "awaiting"
    /\ sent' = <<>>
    /\ \/ \* 4xx response
          /\ calls' = [calls EXCEPT !.who[c].pc = "raised"]
          /\ last' = Op("fetch", NoRec, "", "raised")
          /\ UNCHANGED <<alive, id, ts, values, orig, fieldRecord, cache>>
       \/ \E r \in Recs :
            /\ ~alive[r]
            /\ alive' = [alive EXCEPT ![r] = TRUE]
            /\ fieldRecord' = r
            /\ consume_airtable_data(r, calls.who[c].wid, data)
            /\ IF WellFormed(data)
               THEN /\ calls' = [calls EXCEPT !.who[c].pc = "returned", !.who[c].rec = r]
                    /\ last' = Op("fetch", r, "", "ok")
                    /\ cache' = CacheAfterSave(r, calls.who[c].wid)
               ELSE /\ calls' = [calls EXCEPT !.who[c].pc = "raised"]
                    /\ last' = Op("fetch", r, "", "raised")
                    /\ UNCHANGED cache
    /\ UNCHANGED <<ctx, coll>>
    /\ UNCHANGED <<linkVars, queryVars, pager, filterVars, trip, url, status, mut>>

\* Two callers, one call of fetch_single each, in any interleaving of the
\* stretches between their awaits.
NextCallers ==
    \/ \E c \in Callers, wid \in Ids : CallerEnters(c, wid)
    \/ \E c \in Callers, data \in CallerWires : CallerResumes(c, data)

SpecCallers == Init /\ [][NextCallers]_vars

(***************************************************************************)
(* _RecordLink and _RecordLinkCollection                                   *)
(***************************************************************************)
\* a _RecordLink: its _id (NoId is None) and its _record (NoRec is None)
Link(lid, rec) == [lid |-> lid, rec |-> rec]

\* _RecordLink.id; NoId stands for the ValueError it raises
LinkId(l) ==
    IF l.rec # NoRec /\ id[l.rec] # NoId THEN id[l.rec] ELSE l.lid

\* _RecordLink.has_fetched_record
has_fetched_record(l) == l.rec # NoRec

\* (mutant) __eq__ on the stored identifiers alone
LinkEqById(a, b) == a.lid = b.lid
\* _RecordLink.__eq__
LinkEq(a, b) ==
    \/ a.lid # NoId /\ a.lid = b.lid
    \/ a.rec # NoRec /\ a.rec = b.rec

\* list.index(link): the first position holding an equal link, 0 when none
IndexOf(items, link) ==
    IF \E k \in 1..Len(items) : LinkEq(items[k], link)
    THEN CHOOSE k \in 1..Len(items) :
            /\ LinkEq(items[k], link)
            /\ \A j \in 1..(k - 1) : ~LinkEq(items[j], link)
    ELSE 0

\* the items after __iadd__ built record_link; withRecord: other was a record
ItemsAfterAdd(items, link, withRecord) ==
    IF IndexOf(items, link) = 0 THEN Append(items, link)
    ELSE IF withRecord /\ ~has_fetched_record(items[IndexOf(items, link)])
         THEN [items EXCEPT ![IndexOf(items, link)] = link]
         ELSE items

\* list.remove(link): drops the first equal link, if any
ItemsAfterRemove(items, link) ==
    IF IndexOf(items, link) = 0 THEN items
    ELSE [k \in 1..(Len(items) - 1) |->
            IF k < IndexOf(items, link) THEN items[k] ELSE items[k + 1]]

\* collection += identifier
AddId(i) ==
    /\ Len(ItemsAfterAdd(coll, Link(i, NoRec), FALSE)) <= MaxColl
    /\ coll' = ItemsAfterAdd(coll, Link(i, NoRec), FALSE)
    /\ sent' = <<>>
    /\ last' = LinkOp("add_id", NoRec, i)
    /\ UNCHANGED <<alive, id, ts, values, orig, fieldRecord, ctx, cache>>
    /\ UNCHANGED otherVars

\* collection += record
AddRecord(r) ==
    /\ alive[r]
    /\ Len(ItemsAfterAdd(coll, Link(id[r], r), TRUE)) <= MaxColl
    /\ coll' = ItemsAfterAdd(coll, Link(id[r], r), TRUE)
    /\ sent' = <<>>
    /\ last' = LinkOp("add_record", r, id[r])
    /\ UNCHANGED <<alive, id, ts, values, orig, fieldRecord, ctx, cache>>
    /\ UNCHANGED otherVars

\* collection -= identifier
RemoveId(i) ==
    /\ coll' = ItemsAfterRemove(coll, Link(i, NoRec))
    /\ sent' = <<>>
    /\ last' = LinkOp("remove_id", NoRec, i)
    /\ UNCHANGED <<alive, id, ts, values, orig, fieldRecord, ctx, cache>>
    /\ UNCHANGED otherVars

\* collection -= record
RemoveRecord(r) ==
    /\ alive[r]
    /\ coll' = ItemsAfterRemove(coll, Link(id[r], r))
    /\ sent' = <<>>
    /\ last' = LinkOp("remove_record", r, id[r])
    /\ UNCHANGED <<alive, id, ts, values, orig, fieldRecord, ctx, cache>>
    /\ UNCHANGED otherVars

\* One link collection over records that are created, fetched, saved and
\* deleted while it holds them; the server leaves every column empty.
NextLinks ==
    \/ \E r \in Recs : Construct(r)
    \/ \E wid \in Ids : FetchSingle(wid, BlankWire)
    \/ \E r \in Recs : Save(r, {BlankWire})
    \/ \E r \in Recs : Delete(r)
    \/ \E i \in Ids : AddId(i)
    \/ \E r \in Recs : AddRecord(r)
    \/ \E i \in Ids : RemoveId(i)
    \/ \E r \in Recs : RemoveRecord(r)

SpecLinks == Init /\ [][NextLinks]_vars

(***************************************************************************)
(* SingleRecordLinkField: one owning record and the link its field holds   *)
(***************************************************************************)
LinkedOp(op, o, outcome) ==
    [op |-> op, rec |-> NoRec, fld |-> "", lid |-> NoId, outcome |-> outcome, obj |-> o]

\* _RecordLink(base_and_table=addr, record_id=lid, record=o)
RecordLink(addr, lid, o) ==
    [present |-> TRUE, lid |-> lid, rec |-> o, base |-> addr.base, table |-> addr.table]

get_linked_base_and_table == Address(target.base, target.table)

\* (mutant) ensure_base_and_table_match without its table test
MatchRaisesOnBaseOnly(self, other) ==
    self.base # NoBase /\ other.base # NoBase /\ self.base # other.base
\* self.ensure_base_and_table_match(other) raises
MatchRaises(self, other) ==
    \/ self.base # NoBase /\ other.base # NoBase /\ self.base # other.base
    \/ self.table # NoBase /\ other.table # NoBase /\ self.table # other.table

\* SingleRecordLinkField.decode_from_airtable(value, base_and_table), value
\* being [wid], or empty when wid is NoId
decode_link(wid, base_and_table) ==
    IF wid = NoId THEN NoLink
    ELSE RecordLink(get_linked_base_and_table, wid, NoObj)

\* the base and table of the query the fetcher builds for link l
QueryAddress(l) ==
    Address(IF l.base # NoBase THEN l.base ELSE target.base,
            IF l.table # NoBase THEN l.table ELSE target.table)

\* _validate_base_table_ids raises
AddressIncomplete(a) == a.base = NoBase \/ a.table = NoBase

\* SimpleCachingContext.fetch_single finds the key in its cache
LinkedHit(a, wid) == ctx = "SimpleCaching" /\ lcache[<<a.base, wid>>] # NoObj

\* (mutant) the fetched record is returned and not kept
LinkAfterFetchForgets(l, o) == l
\* self._record = self._fetcher(...)
LinkAfterFetch(l, o) == [l EXCEPT !.rec = o]

\* one more access has returned o, after calling the fetcher or without
Returned(d, o, called) ==
    [d EXCEPT !.returned = @ + 1,
              !.fetched = IF called THEN @ + 1 ELSE @,
              !.first = IF d.returned = 0 THEN o ELSE @]

\* an owning record that reports base ob is hydrated with the link column
\* holding [wid]
DecodeLink(ob, wid) ==
    /\ owner' = Address(ob, "tblOwner")
    /\ slink' = decode_link(wid, Address(ob, "tblOwner"))
    /\ derefs' = [NoDerefs EXCEPT !.born = "decoded"]
    /\ sent' = <<>>
    /\ last' = LinkedOp("decode_link", NoObj, "ok")
    /\ UNCHANGED <<target, store, objs, lcache>>
    /\ UNCHANGED <<recVars, queryVars, pager, filterVars, extraVars>>

\* a record object that reports base b and table t is constructed
ConstructLinked(b, t) ==
    /\ Len(objs) < MaxObjs
    /\ objs' = Append(objs, [base |-> b, table |-> t, id |-> NoId])
    /\ sent' = <<>>
    /\ last' = LinkedOp("construct_linked", Len(objs) + 1, "ok")
    /\ UNCHANGED <<slink, owner, target, store, lcache, derefs>>
    /\ UNCHANGED <<recVars, queryVars, pager, filterVars, extraVars>>

\* owning_record.single_link = record object o
AssignLink(o) ==
    /\ IF MatchRaises(get_linked_base_and_table, objs[o])
       THEN /\ last' = LinkedOp("assign_link", o, "ValueError")
            /\ UNCHANGED <<slink, derefs>>
       ELSE /\ last' = LinkedOp("assign_link", o, "ok")
            /\ slink' = RecordLink(get_linked_base_and_table, NoId, o)
            /\ derefs' = [NoDerefs EXCEPT !.born = "assigned"]
    /\ sent' = <<>>
    /\ UNCHANGED <<owner, target, store, objs, lcache>>
    /\ UNCHANGED <<recVars, queryVars, pager, filterVars, extraVars>>

\* owning_record.single_link is read: None, the record the link holds, or
\* the record its fetcher gets from the context
Deref ==
    /\ derefs.returned < MaxDerefs /\ derefs.fetched < MaxDerefs
    /\ UNCHANGED <<owner, target, store>>
    /\ UNCHANGED <<recVars, queryVars, pager, filterVars, extraVars>>
    /\ IF ~slink.present
       THEN /\ sent' = <<>>
            /\ last' = LinkedOp("deref", NoObj, "none")
            /\ UNCHANGED <<slink, objs, lcache, derefs>>
       ELSE IF slink.rec # NoObj
       THEN /\ sent' = <<>>
            /\ last' = LinkedOp("deref", slink.rec, "ok")
            /\ derefs' = Returned(derefs, slink.rec, FALSE)
            /\ UNCHANGED <<slink, objs, lcache>>
       ELSE IF AddressIncomplete(QueryAddress(slink))
       THEN /\ sent' = <<>>
            /\ last' = LinkedOp("deref", NoObj, "ValueError")
            /\ derefs' = [derefs EXCEPT !.fetched = @ + 1]
            /\ UNCHANGED <<slink, objs, lcache>>
       ELSE IF LinkedHit(QueryAddress(slink), slink.lid)
       THEN /\ sent' = <<>>
            /\ last' = LinkedOp("deref", lcache[<<QueryAddress(slink).base, slink.lid>>], "ok")
            /\ slink' = LinkAfterFetch(slink, lcache[<<QueryAddress(slink).base, slink.lid>>])
            /\ derefs' = Returned(derefs, lcache[<<QueryAddress(slink).base, slink.lid>>], TRUE)
            /\ UNCHANGED <<objs, lcache>>
       ELSE /\ sent' = <<Request("GET", slink.lid, {})>>
            /\ IF <<QueryAddress(slink).base, slink.lid>> \in store
               THEN /\ Len(objs) < MaxObjs
                    /\ objs' = Append(objs, [base |-> QueryAddress(slink).base,
                                             table |-> QueryAddress(slink).table,
                                             id |-> slink.lid])
                    /\ lcache' = IF ctx = "SimpleCaching"
                                 THEN [lcache EXCEPT ![<<QueryAddress(slink).base, slink.lid>>]
                                                        = Len(objs) + 1]
                                 ELSE lcache
                    /\ slink' = LinkAfterFetch(slink, Len(objs) + 1)
                    /\ derefs' = Returned(derefs, Len(objs) + 1, TRUE)
                    /\ last' = LinkedOp("deref", Len(objs) + 1, "ok")
               ELSE /\ last' = LinkedOp("deref", NoObj, "KeyError")
                    /\ derefs' = [derefs EXCEPT !.fetched = @ + 1]
                    /\ UNCHANGED <<slink, objs, lcache>>

\* the server holds at most one record of the linked class
Stores == {{}} \cup {{<<b, i>>} : b \in Bases, i \in Ids}

InitSingleLink ==
    /\ InitRecords
    /\ LinkIdle
    /\ target \in Targets
    /\ store \in Stores
    /\ QueryIdle
    /\ PagerIdle
    /\ FilterIdle
    /\ ExtraIdle

\* Owning records are hydrated with a link and the link is read.
NextDeref ==
    \/ \E ob \in Bases, wid \in Ids \cup {NoId} : DecodeLink(ob, wid)
    \/ Deref

SpecDeref == InitSingleLink /\ [][NextDeref]_vars

\* Records are constructed and assigned to the link field, which is read.
NextAssign ==
    \/ \E b \in Bases \cup {NoBase}, t \in Tables \cup {NoBase} : ConstructLinked(b, t)
    \/ \E o \in 1..Len(objs) : AssignLink(o)
    \/ Deref

SpecAssign == InitSingleLink /\ [][NextAssign]_vars

(***************************************************************************)
(* Filters and the formulas they build                                     *)
(***************************************************************************)
\* filter objects: k is the class, kids the filters held (NotFilter.filter,
\* AndFilter.filters, OrFilter.filters, Q._filter.filters)
TrueFilter == [k |-> "true", name |-> "", kids |-> <<>>]
FalseFilter == [k |-> "false", name |-> "", kids |-> <<>>]

\* EqualsFilter(attr_name, value), the value being the same throughout
EqualsFilter(attr) == [k |-> "leaf", name |-> attr, kids |-> <<>>]

NotFilter(f) == [k |-> "not", name |-> "", kids |-> <<f>>]

\* the filters of fs from position i on, those of class kind replaced by
\* what they hold
RECURSIVE Spliced(_, _, _)
Spliced(fs, i, kind) ==
    IF i > Len(fs) THEN <<>>
    ELSE (IF fs[i].k = kind THEN fs[i].kids ELSE <<fs[i]>>) \o Spliced(fs, i + 1, kind)

AndFilter(fs) == [k |-> "and", name |-> "", kids |-> Spliced(fs, 1, "and")]

OrFilter(fs) == [k |-> "or", name |-> "", kids |-> Spliced(fs, 1, "or")]

\* q.extend(*args, **kwargs): kwargs is a sequence of attribute names
QExtend(q, args, kwargs) ==
    [q EXCEPT !.kids = @ \o [i \in 1..Len(kwargs) |-> EqualsFilter(kwargs[i])] \o args]

\* Q(*args, **kwargs)
Q(args, kwargs) == QExtend([k |-> "q", name |-> "", kids |-> <<>>], args, kwargs)

\* f & g, f | g, ~f
And(f, g) == AndFilter(<<f, g>>)
Or(f, g) == OrFilter(<<f, g>>)
\* (mutant) ~ leaves a NotFilter as it is
InvertKeepsNot(f) == IF f.k = "not" THEN f ELSE NotFilter(f)
\* BaseFilter.__invert__
Invert(f) == IF f.k = "not" THEN f.kids[1] ELSE NotFilter(f)

\* formulas: a text, or a call of AND, OR or NOT on formulas; Empty is ''
Atom(text) == [op |-> "atom", text |-> text, args |-> <<>>]
Empty == [op |-> "empty", text |-> "", args |-> <<>>]
Call(op, args) == [op |-> op, text |-> "", args |-> args]

IsNotEmpty(inner) == inner.op # "empty"

\* (mutant) a call of AND is written whatever the number of arguments
airtable_filter_and_always_call(inner_filters) ==
    Call("AND", SelectSeq(inner_filters, IsNotEmpty))
airtable_filter_and(inner_filters) ==
    IF Len(SelectSeq(inner_filters, IsNotEmpty)) = 0 THEN Empty
    ELSE IF Len(SelectSeq(inner_filters, IsNotEmpty)) = 1
         THEN SelectSeq(inner_filters, IsNotEmpty)[1]
         ELSE Call("AND", SelectSeq(inner_filters, IsNotEmpty))

airtable_filter_or(inner_filters) ==
    IF Len(SelectSeq(inner_filters, IsNotEmpty)) = 0 THEN Empty
    ELSE IF Len(SelectSeq(inner_filters, IsNotEmpty)) = 1
         THEN SelectSeq(inner_filters, IsNotEmpty)[1]
         ELSE Call("OR", SelectSeq(inner_filters, IsNotEmpty))

airtable_filter_not(inner_filter) ==
    IF inner_filter.op = "empty" THEN Atom("FALSE()") ELSE Call("NOT", <<inner_filter>>)

\* '{column}=value' for the one value of the leaves
airtable_filter_equals(column) == Atom(column)

RECURSIVE build_formula(_)
build_formula(f) ==
    CASE f.k = "true" -> Atom("TRUE()")
      [] f.k = "false" -> Atom("FALSE()")
      [] f.k = "leaf" -> airtable_filter_equals(column_name(f.name))
      [] f.k = "not" ->
            IF f.kids[1].k = "true" THEN Atom("FALSE()")
            ELSE IF f.kids[1].k = "false" THEN Atom("TRUE()")
            ELSE IF f.kids[1].k = "not" THEN build_formula(f.kids[1].kids[1])
            ELSE airtable_filter_not(build_formula(f.kids[1]))
      [] f.k \in {"and", "q"} ->
            IF \E i \in 1..Len(f.kids) : f.kids[i].k = "false" THEN Atom("FALSE()")
            ELSE airtable_filter_and([i \in 1..Len(f.kids) |-> build_formula(f.kids[i])])
      [] f.k = "or" ->
            IF \E i \in 1..Len(f.kids) : f.kids[i].k = "true" THEN Atom("TRUE()")
            ELSE airtable_filter_or([i \in 1..Len(f.kids) |-> build_formula(f.kids[i])])
      [] OTHER -> Empty

\* the number of filter objects in f
RECURSIVE Size(_)
RECURSIVE SizeFrom(_, _)
SizeFrom(fs, i) == IF i > Len(fs) THEN 0 ELSE Size(fs[i]) + SizeFrom(fs, i + 1)
Size(f) == 1 + SizeFrom(f.kids, 1)

\* what a composition takes on its other side: the constants, a bare
\* comparison, and Q objects of one and of two keyword constraints
Operands ==
    {TrueFilter, FalseFilter, EqualsFilter("name"),
     Q(<<>>, <<"score">>), Q(<<>>, <<"name", "score">>)}

\* flt = operand
NewFilter(g) ==
    /\ ftree' = g
    /\ formula' = NoFormula
    /\ negs' = Negations(g, 0)
    /\ sent' = <<>>
    /\ last' = Op("new_filter", NoRec, "", "ok")
    /\ UNCHANGED <<recVars, linkVars, queryVars, pager, extraVars>>

\* flt = flt & g, flt = g & flt, flt = flt | g, flt = g | flt
Compose(h) ==
    /\ ftree # NoFilter
    /\ Size(h) <= MaxFilterSize
    /\ ftree' = h
    /\ formula' = NoFormula
    /\ negs' = Negations(h, 0)
    /\ sent' = <<>>
    /\ last' = Op("compose", NoRec, "", "ok")
    /\ UNCHANGED <<recVars, linkVars, queryVars, pager, extraVars>>

AndRight(g) == Compose(And(ftree, g))
AndLeft(g) == Compose(And(g, ftree))
OrRight(g) == Compose(Or(ftree, g))
OrLeft(g) == Compose(Or(g, ftree))

\* flt = ~flt
Negate == Compose(Invert(ftree))

\* flt.build_formula(record_class)
BuildFormula ==
    /\ ftree # NoFilter
    /\ formula' = build_formula(ftree)
    /\ sent' = <<>>
    /\ last' = Op("build_formula", NoRec, "", "ok")
    /\ UNCHANGED <<recVars, linkVars, queryVars, pager, ftree, negs, extraVars>>

\* A filter is composed step by step, and rendered at any point.
NextFilters ==
    \/ \E g \in Operands : NewFilter(g)
    \/ \E g \in Operands : AndRight(g)
    \/ \E g \in Operands : AndLeft(g)
    \/ \E g \in Operands : OrRight(g)
    \/ \E g \in Operands : OrLeft(g)
    \/ Negate
    \/ BuildFormula

SpecFilters == Init /\ [][NextFilters]_vars

\* flt = NotFilter(flt) and flt = ~flt, counted as one more negation of the
\* filter the negations started from
Negated(h) ==
    /\ ftree # NoFilter
    /\ negs.n < MaxNegations
    /\ ftree' = h
    /\ formula' = NoFormula
    /\ negs' = Negations(negs.base, negs.n + 1)
    /\ sent' = <<>>
    /\ last' = Op("negate", NoRec, "", "ok")
    /\ UNCHANGED <<recVars, linkVars, queryVars, pager, extraVars>>

WrapNot == Negated(NotFilter(ftree))
Tilde == Negated(Invert(ftree))

\* what the raw filter classes are given: the constants, a comparison, an
\* AndFilter of no filter, a NotFilter, a Q of one keyword constraint and a
\* Q of none
RawOperands ==
    {TrueFilter, FalseFilter, EqualsFilter("name"), AndFilter(<<>>),
     NotFilter(EqualsFilter("name")), Q(<<>>, <<"score">>), Q(<<>>, <<>>)}

\* Filters are made of the raw classes, negated over and over with either
\* spelling of the negation, and rendered at any point.
\* flt = AndFilter(flt, g), flt = OrFilter(flt, g)
RawCompose(h) ==
    /\ Size(h) <= MaxRawSize
    /\ Compose(h)

RawAnd(g) == RawCompose(AndFilter(<<ftree, g>>))
RawOr(g) == RawCompose(OrFilter(<<ftree, g>>))

NextRaw ==
    \/ \E g \in RawOperands : NewFilter(g)
    \/ \E g \in RawOperands : RawAnd(g)
    \/ \E g \in RawOperands : RawOr(g)
    \/ WrapNot
    \/ Tilde
    \/ BuildFormula

SpecRaw == Init /\ [][NextRaw]_vars

(***************************************************************************)
(* BaseContext.fetch_many: one generator, resumed step by step             *)
(***************************************************************************)
\* what the server holds for a listing: pages of record identifiers, no
\* identifier twice, and no more records than there is room for
IdSeqs ==
    UNION {{q \in [1..n -> Ids] : \A i, j \in 1..n : i # j => q[i] # q[j]} : n \in 0..NumIds}

RECURSIVE Concat(_, _)
Concat(pages, k) == IF k = 0 THEN <<>> ELSE Concat(pages, k - 1) \o pages[k]

PageLists ==
    UNION {{pl \in [1..n -> IdSeqs] :
              /\ Len(Concat(pl, n)) <= NumRecs
              /\ \A i, j \in 1..Len(Concat(pl, n)) :
                    i # j => Concat(pl, n)[i] # Concat(pl, n)[j]} : n \in 1..MaxPages}

\* response_data.get('offset') of page k: the server names the page reached,
\* NoOffset being None
NoOffset == 0
OffsetOf(pages, k) == IF k < Len(pages) THEN k ELSE NoOffset

Param(key, val) == [key |-> key, val |-> val]

\* the values the pairs of params give for key
ParamValues(params, key) ==
    [i \in 1..Len(SelectSeq(params, LAMBDA pair : pair.key = key)) |->
        SelectSeq(params, LAMBDA pair : pair.key = key)[i].val]

\* the page the server answers a request carrying params with
ServerPage(params) ==
    IF Len(ParamValues(params, "offset")) = 0 THEN 1
    ELSE ParamValues(params, "offset")[Len(ParamValues(params, "offset"))] + 1

\* url_query_params before the first request
InitialParams(flt) ==
    (IF flt # NoFilter /\ build_formula(flt).op # "empty"
     THEN <<Param("filterByFormula", build_formula(flt))>> ELSE <<>>)
        \o [i \in 1..Len(FieldOrder) |-> Param("fields[]", column_name(FieldOrder[i]))]

\* (mutant) the new offset is appended and the old one left in
ParamsAppendOffset(params, offset) == Append(params, Param("offset", offset))
\* url_query_params once the response gave an offset
ParamsWithOffset(params, offset) ==
    Append(SelectSeq(params, LAMBDA pair : pair.key # "offset"), Param("offset", offset))

\* context.fetch_many(record_filter=flt) is called and its generator started
FetchManyStart(flt, pages) ==
    /\ pager.pc \in {"idle", "done", "failed"}
    /\ pager' = [pc |-> "request", pages |-> pages, params |-> InitialParams(flt),
                 page |-> 0, pos |-> 0, yielded |-> <<>>, requests |-> <<>>]
    /\ sent' = <<>>
    /\ last' = Op("fetch_many_start", NoRec, "", "ok")
    /\ UNCHANGED <<recVars, linkVars, queryVars, filterVars, extraVars>>

\* session.get(...): one request with the current parameters, and its answer
PagerRequest ==
    /\ pager.pc = "request"
    /\ Len(pager.requests) <= MaxPages
    /\ sent' = <<Request("GET", NoId, ParamValues(pager.params, "offset"))>>
    /\ \/ \* 4xx response
          /\ pager' = [pager EXCEPT
                !.pc = "failed",
                !.requests = Append(@, [offsets |-> ParamValues(pager.params, "offset"),
                                        yieldedBefore |-> Len(pager.yielded)])]
          /\ last' = Op("fetch_many_request", NoRec, "", "raised")
       \/ /\ ServerPage(pager.params) <= Len(pager.pages)
          /\ pager' = [pager EXCEPT
                !.pc = "yield",
                !.page = ServerPage(pager.params),
                !.pos = 0,
                !.requests = Append(@, [offsets |-> ParamValues(pager.params, "offset"),
                                        yieldedBefore |-> Len(pager.yielded)])]
          /\ last' = Op("fetch_many_request", NoRec, "", "ok")
    /\ UNCHANGED <<recVars, linkVars, queryVars, filterVars, extraVars>>

\* the next record of the page is constructed, hydrated, cached by the
\* caching context, and yielded
PagerYield(r) ==
    /\ pager.pc = "yield"
    /\ pager.pos < Len(pager.pages[pager.page])
    /\ ~alive[r]
    /\ alive' = [alive EXCEPT ![r] = TRUE]
    /\ fieldRecord' = r
    /\ consume_airtable_data(r, pager.pages[pager.page][pager.pos + 1], BlankWire)
    /\ cache' = CacheAfterSave(r, pager.pages[pager.page][pager.pos + 1])
    /\ pager' = [pager EXCEPT
          !.pos = @ + 1,
          !.yielded = Append(@, [rec |-> r, wid |-> pager.pages[pager.page][pager.pos + 1]])]
    /\ sent' = <<>>
    /\ last' = Op("fetch_many", r, "", "ok")
    /\ UNCHANGED <<ctx, coll>>
    /\ UNCHANGED <<linkVars, queryVars, filterVars, extraVars>>

\* the page is exhausted: the loop ends, or goes on with the page's offset
PagerAdvance ==
    /\ pager.pc = "yield"
    /\ pager.pos = Len(pager.pages[pager.page])
    /\ pager' = IF OffsetOf(pager.pages, pager.page) = NoOffset
                THEN [pager EXCEPT !.pc = "done"]
                ELSE [pager EXCEPT
                        !.pc = "request",
                        !.params = ParamsWithOffset(@, OffsetOf(pager.pages, pager.page))]
    /\ sent' = <<>>
    /\ last' = Op("fetch_many_advance", NoRec, "", "ok")
    /\ UNCHANGED <<recVars, linkVars, queryVars, filterVars, extraVars>>

\* Records are listed, fetched, constructed, saved and deleted under either
\* context; a listing is of one page and the server leaves every column empty.
NextCache ==
    \/ \E pages \in {pl \in PageLists : Len(pl) = 1} : FetchManyStart(NoFilter, pages)
    \/ PagerRequest
    \/ \E r \in Recs : PagerYield(r)
    \/ PagerAdvance
    \/ \E r \in Recs : Construct(r)
    \/ \E wid \in Ids : FetchSingle(wid, BlankWire)
    \/ \E r \in Recs : Save(r, {BlankWire})
    \/ \E r \in Recs : Delete(r)

SpecCache == Init /\ [][NextCache]_vars

\* One listing at a time, and nothing else.
NextPager ==
    \/ \E pages \in PageLists : FetchManyStart(NoFilter, pages)
    \/ PagerRequest
    \/ \E r \in Recs : PagerYield(r)
    \/ PagerAdvance

SpecPager == Init /\ [][NextPager]_vars

(***************************************************************************)
(* RecordQuery                                                             *)
(***************************************************************************)
\* an operation on query k, given identifier wid; n records were yielded
QueryOp(op, k, wid, outcome, n) ==
    [op |-> op, rec |-> NoRec, fld |-> "", lid |-> wid, outcome |-> outcome,
     q |-> k, n |-> n]

\* (mutant) the copy comes out initialised
ShallowCopyInitialised(q) == [q EXCEPT !.initialised = TRUE]
\* RecordQuery._shallow_copy: copy.copy keeps every attribute, and the copy
\* refers to the very filter object the original refers to
ShallowCopy(q) == q

\* (mutant) the copy comes out initialised and not empty
CopyInitialisedNotEmpty(q) == [ShallowCopy(q) EXCEPT !.initialised = TRUE, !.empty = FALSE]
\* RecordQuery._shallow_copy_and_initialise
CopyInitialised(q) == [ShallowCopy(q) EXCEPT !.initialised = TRUE]

\* (mutant) get() accepts a query with a filter
GetIgnoresFilter(q) == FALSE
\* get() raises ValueError, once it is past its test for the empty query
GetRejectsFilter(q) == q.flt # 0

\* query k .all()
All(k) ==
    /\ IF qs[k].initialised
       THEN UNCHANGED qs
       ELSE /\ Len(qs) < MaxQueries
            /\ qs' = Append(qs, [CopyInitialised(qs[k]) EXCEPT !.scoped = TRUE])
    /\ sent' = <<>>
    /\ last' = QueryOp("all", k, NoId, "ok", 0)
    /\ UNCHANGED <<recVars, linkVars, fheap, pager, filterVars, extraVars>>

\* query k .none()
NoneQuery(k) ==
    /\ IF qs[k].empty
       THEN UNCHANGED qs
       ELSE /\ Len(qs) < MaxQueries
            /\ qs' = Append(qs, [CopyInitialised(qs[k]) EXCEPT
                                    !.empty = TRUE, !.scoped = TRUE, !.fromNone = TRUE])
    /\ sent' = <<>>
    /\ last' = QueryOp("none", k, NoId, "ok", 0)
    /\ UNCHANGED <<recVars, linkVars, fheap, pager, filterVars, extraVars>>

\* query k .filter(**kwargs), kwargs a non-empty sequence of attribute names:
\* a query without filter gets a new Q, a query with one has its Q extended
Filter(k, kwargs) ==
    /\ Len(qs) < MaxQueries
    /\ IF CopyInitialised(qs[k]).flt = 0
       THEN /\ fheap' = Append(fheap, Q(<<>>, kwargs))
            /\ qs' = Append(qs, [CopyInitialised(qs[k]) EXCEPT
                                    !.flt = Len(fheap) + 1, !.scoped = TRUE])
       ELSE /\ Size(QExtend(fheap[qs[k].flt], <<>>, kwargs)) <= MaxFilterSize
            /\ fheap' = [fheap EXCEPT ![qs[k].flt] = QExtend(@, <<>>, kwargs)]
            /\ qs' = Append(qs, [CopyInitialised(qs[k]) EXCEPT !.scoped = TRUE])
    /\ sent' = <<>>
    /\ last' = QueryOp("filter", k, NoId, "ok", 0)
    /\ UNCHANGED <<recVars, linkVars, pager, filterVars, extraVars>>

\* query k .filter() with no argument is query k .all()
FilterNothing(k) == All(k)

\* (mutant) the query is given the base itself and returned
SetBaseIdInPlace(k, b) ==
    /\ Len(qs) < MaxQueries
    /\ qs' = [qs EXCEPT ![k].base = b]
    /\ sent' = <<>>
    /\ last' = QueryOp("set_base_id", k, NoId, "ok", 0)
    /\ UNCHANGED <<recVars, linkVars, fheap, pager, filterVars, extraVars>>

\* query k .set_base_id(b)
SetBaseId(k, b) ==
    /\ Len(qs) < MaxQueries
    /\ qs' = Append(qs, [ShallowCopy(qs[k]) EXCEPT !.base = b])
    /\ sent' = <<>>
    /\ last' = QueryOp("set_base_id", k, NoId, "ok", 0)
    /\ UNCHANGED <<recVars, linkVars, fheap, pager, filterVars, extraVars>>

\* query k .set_table_id(t)
SetTableId(k, t) ==
    /\ Len(qs) < MaxQueries
    /\ qs' = Append(qs, [ShallowCopy(qs[k]) EXCEPT !.table = t])
    /\ sent' = <<>>
    /\ last' = QueryOp("set_table_id", k, NoId, "ok", 0)
    /\ UNCHANGED <<recVars, linkVars, fheap, pager, filterVars, extraVars>>

\* iter(query k) is run: it raises, ends at once, or hands over to the
\* generator of fetch_many, the server holding the pages given
Iterate(k, pages) ==
    IF ~qs[k].initialised
    THEN /\ sent' = <<>>
         /\ last' = QueryOp("iterate", k, NoId, "ValueError", 0)
         /\ UNCHANGED <<recVars, otherVars>>
    ELSE IF qs[k].empty
    THEN /\ sent' = <<>>
         /\ last' = QueryOp("iterate", k, NoId, "ok", 0)
         /\ UNCHANGED <<recVars, otherVars>>
    ELSE /\ pager.pc \in {"idle", "done", "failed"}
         /\ pager' = [pc |-> "request", pages |-> pages,
                      params |-> InitialParams(IF qs[k].flt = 0 THEN NoFilter
                                               ELSE fheap[qs[k].flt]),
                      page |-> 0, pos |-> 0, yielded |-> <<>>, requests |-> <<>>]
         /\ sent' = <<>>
         /\ last' = QueryOp("iterate", k, NoId, "started", 0)
         /\ UNCHANGED <<recVars, linkVars, queryVars, filterVars, extraVars>>

\* query k .get(wid): the records of the type are at the type's own base and
\* table, and the server holds none at any other
Get(k, wid) ==
    IF qs[k].empty
    THEN /\ sent' = <<>>
         /\ last' = QueryOp("get", k, wid, "KeyError", 0)
         /\ UNCHANGED <<recVars, otherVars>>
    ELSE IF GetRejectsFilter(qs[k])
    THEN /\ sent' = <<>>
         /\ last' = QueryOp("get", k, wid, "ValueError", 0)
         /\ UNCHANGED <<recVars, otherVars>>
    ELSE IF qs[k].base # NoBase \/ qs[k].table # NoBase
    THEN /\ sent' = <<Request("GET", wid, {})>>
         /\ last' = QueryOp("get", k, wid, "KeyError", 0)
         /\ UNCHANGED <<recVars, otherVars>>
    ELSE FetchSingle(wid, BlankWire)

\* the query the next one is derived from: the latest
Receivers == {Len(qs)}

\* Queries are derived in a chain from the type's own, and any of them is
\* run; a listing finds no record on the server.
NextQuery ==
    \/ \E k \in Receivers : All(k)
    \/ \E k \in Receivers : NoneQuery(k)
    \/ \E k \in Receivers : Filter(k, <<"name">>)
    \/ \E k \in Receivers : FilterNothing(k)
    \/ \E k \in Receivers : SetBaseId(k, "appOther")
    \/ \E k \in Receivers : SetTableId(k, "tblOther")
    \/ \E k \in 1..Len(qs) : Iterate(k, <<<<>>>>)
    \/ PagerRequest
    \/ PagerAdvance
    \/ \E k \in 1..Len(qs), wid \in Ids : Get(k, wid)

SpecQuery == Init /\ [][NextQuery]_vars

(***************************************************************************)
(* Addresses: the URL of a query                                           *)
(***************************************************************************)
\* RecordQuery.get_base_id and get_table_id: the query's own identifier when
\* it was given one, the one in the Meta of its record class otherwise
get_base_id(q) == IF q.base = NoBase THEN target.base ELSE q.base
get_table_id(q) == IF q.table = NoBase THEN target.table ELSE q.table

\* the base_id and table_id properties build_url reads
base_id(q) == get_base_id(q)
table_id(q) == get_table_id(q)

API_ROOT_URL == "https://api.airtable.com/v0"

\* the characters of the table identifiers in use
Spelling(t) ==
    CASE t = "tblLinked" -> <<"t", "b", "l", "L", "i", "n", "k", "e", "d">>
      [] t = "tblOther" -> <<"t", "b", "l", "O", "t", "h", "e", "r">>
      [] t = "Test Table" -> <<"T", "e", "s", "t", " ", "T", "a", "b", "l", "e">>
      [] t = "Q/A?" -> <<"Q", "/", "A", "?">>

\* urllib.parse.quote: letters, digits and _.-~ are never quoted, and
\* neither is the default safe character /
AlwaysSafe ==
    {"a", "b", "c", "d", "e", "f", "g", "h", "i", "j", "k", "l", "m", "n", "o", "p", "q",
     "r", "s", "t", "u", "v", "w", "x", "y", "z",
     "A", "B", "C", "D", "E", "F", "G", "H", "I", "J", "K", "L", "M", "N", "O", "P", "Q",
     "R", "S", "T", "U", "V", "W", "X", "Y", "Z",
     "0", "1", "2", "3", "4", "5", "6", "7", "8", "9", "_", ".", "-", "~"}

\* '%' and the two hexadecimal digits of the character's code
PercentHex(c) ==
    CASE c = " " -> "%20"
      [] c = "?" -> "%3F"
      [] c = "%" -> "%25"

QuoteChar(c) == IF c \in AlwaysSafe \cup {"/"} THEN c ELSE PercentHex(c)

RECURSIVE QuoteFrom(_, _)
QuoteFrom(chars, i) ==
    IF i > Len(chars) THEN "" ELSE QuoteChar(chars[i]) \o QuoteFrom(chars, i + 1)

\* (mutant) the table identifier goes into the URL as it is
encode_table_id_verbatim(t) == t
encode_table_id(t) == QuoteFrom(Spelling(t), 1)

\* record identifiers as the server writes them
RecordIdText(rid) == "rec" \o ToString(rid)

\* build_url(record_id=rid) on query q, rid being NoId when left out: what
\* it returns, "" standing for the ValueError of _validate_base_table_ids
build_url(q, rid) ==
    IF AddressIncomplete(Address(base_id(q), table_id(q))) THEN ""
    ELSE API_ROOT_URL \o "/" \o base_id(q) \o "/" \o encode_table_id(table_id(q))
            \o (IF rid # NoId THEN "/" \o RecordIdText(rid) ELSE "")

\* query k .build_url(record_id=rid)
BuildUrl(k, rid) ==
    /\ url' = build_url(qs[k], rid)
    /\ sent' = <<>>
    /\ last' = QueryOp("build_url", k, rid,
                       IF build_url(qs[k], rid) = "" THEN "ValueError" ELSE "ok", 0)
    /\ UNCHANGED <<recVars, linkVars, queryVars, pager, filterVars, trip, status, mut, calls>>

\* the record class gives a base and a table in its Meta, or leaves them out
InitUrl ==
    /\ InitRecords
    /\ LinkIdle
    /\ target \in Targets
    /\ store = {}
    /\ QueryIdle
    /\ PagerIdle
    /\ FilterIdle
    /\ ExtraIdle

\* Queries are derived from any query made so far, given other bases and
\* tables, and asked for their URL.
NextUrl ==
    \/ \E k \in 1..Len(qs) : All(k)
    \/ \E k \in 1..Len(qs) : SetBaseId(k, "appOther")
    \/ \E k \in 1..Len(qs), t \in {"Test Table", "Q/A?"} : SetTableId(k, t)
    \/ \E k \in 1..Len(qs), rid \in Ids \cup {NoId} : BuildUrl(k, rid)

SpecUrl == InitUrl /\ [][NextUrl]_vars

(***************************************************************************)
(* Fields whose values are mutable objects                                 *)
(***************************************************************************)
\* items a multiple selection can hold
Tags == {"a", "b"}

\* identifiers a multiple record link can hold
LinkIds == {1, 2}

\* what can be added to or removed from the value of field f
Elements(f) == IF f = "tags" THEN Tags ELSE LinkIds

\* the iterables assigned to field f, and the lists the server sends for it
Iterables(f) ==
    IF f = "tags" THEN {<<>>, <<"a">>, <<"a", "b">>}
    ELSE {<<>>, <<1>>, <<1, 2>>, <<2, 1>>}

\* the cells a record refers to
Referenced(m) == {m.val[f] : f \in MutableNames} \cup {m.orig[f] : f \in MutableNames}

\* where the next object is made: a cell nothing refers to
FreeCell(m) == CHOOSE c \in Cells \ Referenced(m) : \A d \in Cells \ Referenced(m) : c <= d

\* the references of a record, in the order of its fields
References(m) ==
    <<m.val[MutableFields[1]], m.orig[MutableFields[1]],
      m.val[MutableFields[2]], m.orig[MutableFields[2]]>>

\* how many objects the record refers to up to its first reference to c
Rank(m, c) ==
    LET first == CHOOSE i \in 1..4 :
                    References(m)[i] = c /\ \A j \in 1..(i - 1) : References(m)[j] # c
    IN  Cardinality({References(m)[j] : j \in 1..first})

\* objects nothing refers to are gone; the number of a cell means nothing,
\* and the cells are numbered in the order the record refers to them
Collected(m) ==
    [m EXCEPT
        !.heap = [d \in Cells |->
                    IF \E c \in Referenced(m) \ {NoCell} : Rank(m, c) = d
                    THEN m.heap[CHOOSE c \in Referenced(m) \ {NoCell} : Rank(m, c) = d]
                    ELSE NoObject],
        !.val = [f \in MutableNames |-> IF m.val[f] = NoCell THEN NoCell ELSE Rank(m, m.val[f])],
        !.orig = [f \in MutableNames |-> IF m.orig[f] = NoCell THEN NoCell ELSE Rank(m, m.orig[f])]]

\* ValueSet.add, _RecordLinkCollection.__iadd__ with an identifier
ObjectAfterAdd(obj, x) ==
    IF obj.k = "ValueSet" THEN ValueSetObj(obj.set \cup {x})
    ELSE CollectionObj(ItemsAfterAdd(obj.seq, Link(x, NoRec), FALSE))

\* ValueSet.discard, _RecordLinkCollection.__isub__ with an identifier
ObjectAfterDiscard(obj, x) ==
    IF obj.k = "ValueSet" THEN ValueSetObj(obj.set \ {x})
    ELSE CollectionObj(ItemsAfterRemove(obj.seq, Link(x, NoRec)))

RECURSIVE AddAll(_, _, _)
AddAll(obj, items, i) ==
    IF i > Len(items) THEN obj ELSE AddAll(ObjectAfterAdd(obj, items[i]), items, i + 1)

\* the object validate and decode_from_airtable make of an iterable: a new
\* ValueSet set to its items, a new collection with each identifier added
MadeFrom(f, items) ==
    AddAll(IF f = "tags" THEN ValueSetObj({}) ELSE CollectionObj(<<>>), items, 1)

\* ValueSet(value) has a set of its own with the same items;
\* _RecordLinkCollection(other=value) has a list of its own with a new link
\* for each link
CopyOf(obj) == obj

\* Set.__eq__ for ValueSet, list equality by _RecordLink.__eq__ for
\* _RecordLinkCollection
MutableSame(a, b) ==
    IF a.k = "ValueSet" THEN a.set = b.set
    ELSE /\ Len(a.seq) = Len(b.seq)
         /\ \A i \in 1..Len(a.seq) : LinkEq(a.seq[i], b.seq[i])

\* record._fields_values[f] = a new object obj
WithValue(m, f, obj) ==
    Collected([m EXCEPT !.heap[FreeCell(m)] = obj, !.val[f] = FreeCell(m)])

\* record._orig_fields_values[f] = a new object obj
WithSnapshot(m, f, obj) ==
    Collected([m EXCEPT !.heap[FreeCell(m)] = obj, !.orig[f] = FreeCell(m)])

\* (mutant) BaseField.clone_value: the value itself
clone_mutable_same(m, f) == Collected([m EXCEPT !.orig[f] = m.val[f]])
\* record._orig_fields_values[f] = field.clone_value(record._fields_values[f])
clone_mutable(m, f) == WithSnapshot(m, f, CopyOf(m.heap[m.val[f]]))

RECURSIVE ClearFrom(_, _)
ClearFrom(m, i) ==
    IF i > Len(MutableFields) THEN m ELSE ClearFrom(clone_mutable(m, MutableFields[i]), i + 1)

\* BaseRecord._clear_dirty_fields
clear_dirty_fields(m) == ClearFrom(m, 1)

RECURSIVE DecodeFrom(_, _, _)
DecodeFrom(m, data, i) ==
    IF i > Len(MutableFields) THEN m
    ELSE DecodeFrom(WithValue(m, MutableFields[i], MadeFrom(MutableFields[i], data[MutableFields[i]])),
                    data, i + 1)

\* the wire records: a list for each column, an absent column giving none
MutableWires ==
    {[tags |-> t, links |-> l] : t \in {<<>>, <<"a">>, <<"a", "b">>}, l \in {<<>>, <<1>>, <<1, 2>>}}
AbsentWire == [f \in MutableNames |-> <<>>]

\* the fields that differ from their snapshot
MutableDirty(m) == {f \in MutableNames : ~MutableSame(m.heap[m.val[f]], m.heap[m.orig[f]])}

MutableOp(op, f) == Op(op, NoRec, f, "ok")

\* record_cls(): every value is decoded from absence, then the snapshot taken
MutConstruct ==
    /\ ~mut.alive
    /\ mut' = clear_dirty_fields(DecodeFrom([mut EXCEPT !.alive = TRUE], AbsentWire, 1))
    /\ last' = MutableOp("construct", "")

\* record.f = items
MutAssign(f, items) ==
    /\ mut.alive
    /\ mut' = WithValue(mut, f, MadeFrom(f, items))
    /\ last' = MutableOp("assign", f)

\* record.f.add(x), or c = record.f followed by c += x
MutAdd(f, x) ==
    /\ mut.alive
    /\ mut' = [mut EXCEPT !.heap[mut.val[f]] = ObjectAfterAdd(@, x)]
    /\ last' = MutableOp("add", f)

\* record.f.discard(x), or c = record.f followed by c -= x
MutDiscard(f, x) ==
    /\ mut.alive
    /\ mut' = [mut EXCEPT !.heap[mut.val[f]] = ObjectAfterDiscard(@, x)]
    /\ last' = MutableOp("discard", f)

\* record.consume_airtable_data: on a fetch, and on the answer to a create
MutHydrate(data) ==
    /\ mut.alive
    /\ mut' = clear_dirty_fields(DecodeFrom([mut EXCEPT !.persisted = TRUE], data, 1))
    /\ last' = MutableOp("hydrate", "")

RECURSIVE ClearFromAbsence(_, _)
ClearFromAbsence(m, i) ==
    IF i > Len(MutableFields) THEN m
    ELSE ClearFromAbsence(WithSnapshot(m, MutableFields[i], MadeFrom(MutableFields[i], <<>>)), i + 1)

\* the update of a persisted record went through, or had nothing to send
MutUpdate ==
    /\ mut.alive /\ mut.persisted
    /\ mut' = IF MutableDirty(mut) = {} THEN mut ELSE clear_dirty_fields(mut)
    /\ last' = MutableOp("update", "")

\* the delete of a persisted record went through
MutDelete ==
    /\ mut.alive /\ mut.persisted
    /\ mut' = ClearFromAbsence([mut EXCEPT !.persisted = FALSE], 1)
    /\ last' = MutableOp("delete", "")

NextMutable ==
    /\ \/ MutConstruct
       \/ \E f \in MutableNames : \E items \in Iterables(f) : MutAssign(f, items)
       \/ \E f \in MutableNames : \E x \in Elements(f) : MutAdd(f, x)
       \/ \E f \in MutableNames : \E x \in Elements(f) : MutDiscard(f, x)
       \/ \E data \in MutableWires : MutHydrate(data)
       \/ MutUpdate
       \/ MutDelete
    /\ sent' = <<>>
    /\ UNCHANGED <<recVars, linkVars, queryVars, pager, filterVars, trip, url, status, calls>>

SpecMutable == Init /\ [][NextMutable]_vars

(***************************************************************************)
(* Field classes: one value through validate, encode and decode            *)
(***************************************************************************)
\* one field of each class that has an encoder and keeps plain values
TripFields == {"name", "score", "count", "active", "born", "seen", "colour"}

\* the values a caller hands to validate
TripValues(f) ==
    CASE f = "name" -> {PyNone, PyStr(""), PyStr("x")}
      [] f = "score" -> {PyNone, PyInt(1), PyFloat(1), PyNaN}
      [] f = "count" -> {PyNone, PyInt(1), PyFloat(1)}
      [] f = "active" -> {PyNone, PyBool(FALSE), PyBool(TRUE), PyInt(2)}
      [] f = "born" -> {PyNone} \cup {PyDate(d) : d \in Days}
      [] f = "seen" -> {PyNone} \cup {PyDateTime(h, tz) : h \in 1..2, tz \in {"naive", "utc", "plus1"}}
      [] f = "colour" -> {PyNone, PyEnum("RED"), PyStr("red"), PyStr("blue")}

\* what the build and the machine decide: whether zoneinfo is there, and the
\* local clock; only DateTimeField looks at them
TripZones(f) == IF FieldType(f) = "DateTime" THEN BOOLEAN ELSE {FALSE}
TripOffsets(f) == IF FieldType(f) = "DateTime" THEN {0, 1} ELSE {0}

\* field.validate(v)
TripValidate(f, v, zone, offset) ==
    /\ trip' = [NoTrip EXCEPT !.stage = "validated", !.fld = f, !.zone = zone,
                              !.offset = offset, !.val = validate(f, v)]
    /\ sent' = <<>>
    /\ last' = Op("validate", NoRec, f, "ok")
    /\ UNCHANGED <<recVars, linkVars, queryVars, pager, filterVars, url, status, mut, calls>>

\* field.encode_to_airtable(the validated value)
TripEncode ==
    /\ trip.stage = "validated"
    /\ trip' = [trip EXCEPT
                  !.stage = "encoded",
                  !.wire = IF FieldType(trip.fld) = "DateTime"
                           THEN encode_datetime(trip.val, trip.zone, trip.offset)
                           ELSE encode_field(trip.fld, trip.val)]
    /\ sent' = <<>>
    /\ last' = Op("encode", NoRec, trip.fld, "ok")
    /\ UNCHANGED <<recVars, linkVars, queryVars, pager, filterVars, url, status, mut, calls>>

\* field.decode_from_airtable(the encoded value)
TripDecode ==
    /\ trip.stage = "encoded"
    /\ IF DecodeRaises(trip.fld, trip.wire)
       THEN /\ trip' = [trip EXCEPT !.stage = "raised"]
            /\ last' = Op("decode", NoRec, trip.fld, "raised")
       ELSE /\ trip' = [trip EXCEPT
                          !.stage = "decoded",
                          !.back = IF FieldType(trip.fld) = "DateTime"
                                   THEN decode_datetime(trip.wire, trip.zone)
                                   ELSE decode_from_airtable(trip.fld, trip.wire)]
            /\ last' = Op("decode", NoRec, trip.fld, "ok")
    /\ sent' = <<>>
    /\ UNCHANGED <<recVars, linkVars, queryVars, pager, filterVars, url, status, mut, calls>>

\* Values are validated, encoded and decoded by the field classes.
NextTrip ==
    \/ \E f \in TripFields : \E v \in TripValues(f) :
          \E zone \in TripZones(f), offset \in TripOffsets(f) : TripValidate(f, v, zone, offset)
    \/ TripEncode
    \/ TripDecode

SpecTrip == Init /\ [][NextTrip]_vars

(***************************************************************************)
(* Properties                                                              *)
(***************************************************************************)
\* the dirty fields of a record holding values vals over the snapshot og
DirtyIn(vals, og) ==
    {f \in FieldNames : ~read_only(f) /\ ~is_same_value(f, vals[f], og[f])}

\* the mapping that sends each of the fields fs of vals, encoded, under its column
PayloadOf(fs, vals) == {<<column_name(f), encode_field(f, vals[f])>> : f \in fs}

\* C1: right after consume_airtable_data of a well-formed wire record,
\* encode_to_airtable() is the empty mapping.
C1_HydrationNeverDirty ==
    (last.op = "hydrate" /\ last.outcome = "ok")
        => encode_to_airtable(last.rec, FALSE) = {}

\* C2: assigning to a read-only field of a record instance raises if and only
\* if that instance has an identifier, and a raising assignment leaves the
\* instance's values as they were.
C2_ReadOnlyRaisesIffPersisted ==
    [][(last'.op = "assign" /\ read_only(last'.fld))
        => /\ last'.outcome = "raised" <=> id[last'.rec] # NoId
           /\ last'.outcome = "raised" => values'[last'.rec] = values[last'.rec]]_vars

\* C3 (as stated): after a successful delete the record has no identifier, no
\* timestamp and an empty dirty diff.
C3_DeleteLeavesClean ==
    (last.op = "delete" /\ last.outcome = "ok")
        => /\ id[last.rec] = NoId
           /\ ~ts[last.rec]
           /\ encode_to_airtable(last.rec, FALSE) = {}

\* C3 (amended): after a successful delete the record has no identifier and
\* no timestamp, keeps the field values it held, and its dirty diff is made of
\* exactly the writable fields whose value differs from the value the field
\* decodes from absence.
C3_DeleteLeavesDirtyAgainstBlank ==
    [][(last'.op = "delete" /\ last'.outcome = "ok")
        => /\ id'[last'.rec] = NoId
           /\ ~ts'[last'.rec]
           /\ values'[last'.rec] = values[last'.rec]
           /\ DirtyIn(values'[last'.rec], orig'[last'.rec])
                = {f \in FieldNames :
                     ~read_only(f) /\ ~PyEq(values[last'.rec][f], Blank(f))}]_vars

\* a delete succeeded on a record that held a name and a score
C3_Witness ==
    /\ last.op = "delete" /\ last.outcome = "ok"
    /\ values[last.rec]["name"] = PyStr("x")
    /\ values[last.rec]["score"] = PyFloat(1)
    /\ encode_to_airtable(last.rec, FALSE) # {}

\* C4: save() on a persisted record with a non-empty dirty diff issues exactly
\* one update request, carrying exactly the dirty writable fields under their
\* column names, and once it has succeeded the dirty diff is empty.
C4_UpdateSendsDiffAndCleans ==
    [][(last'.op = "update" /\ last'.outcome = "ok"
            /\ DirtyIn(values[last'.rec], orig[last'.rec]) # {})
        => /\ sent' = <<Request("PATCH", id[last'.rec],
                          PayloadOf(DirtyIn(values[last'.rec], orig[last'.rec]),
                                    values[last'.rec]))>>
           /\ DirtyIn(values'[last'.rec], orig'[last'.rec]) = {}]_vars

\* C5: save() on a persisted record whose dirty diff is empty issues no
\* request and leaves identifier, timestamp, values and snapshot unchanged.
C5_CleanUpdateIsNoOp ==
    [][(last'.op = "update" /\ DirtyIn(values[last'.rec], orig[last'.rec]) = {})
        => /\ sent' = <<>>
           /\ id'[last'.rec] = id[last'.rec]
           /\ ts'[last'.rec] = ts[last'.rec]
           /\ values'[last'.rec] = values[last'.rec]
           /\ orig'[last'.rec] = orig[last'.rec]]_vars

\* save() returned on a persisted, hydrated record with nothing dirty
C5_Witness ==
    /\ last.op = "update" /\ last.outcome = "ok"
    /\ sent = <<>>
    /\ id[last.rec] # NoId /\ ts[last.rec]
    /\ values[last.rec]["name"] = PyStr("x")
    /\ DirtyIn(values[last.rec], orig[last.rec]) = {}

\* C6: save() on a transient record issues exactly one create request and,
\* when it succeeds, the record has an identifier and a timestamp, its values
\* are those decoded from a server response, and its dirty diff is empty.
C6_CreateHydratesClean ==
    [][(last'.op = "create" /\ last'.outcome = "ok")
        => /\ Len(sent') = 1 /\ sent'[1].method = "POST"
           /\ id'[last'.rec] # NoId
           /\ ts'[last'.rec]
           /\ \E data \in WireFields :
                values'[last'.rec] = [f \in FieldNames |-> decode_from_airtable(f, data[f])]
           /\ DirtyIn(values'[last'.rec], orig'[last'.rec]) = {}]_vars

\* C7: on a record just hydrated, an assignment that changes one writable
\* field makes encode_to_airtable() the one-entry mapping of that field's
\* column to the encoding of its new value.
C7_OneAssignmentOneEntry ==
    [][(/\ last.op = "hydrate" /\ last.outcome = "ok"
        /\ last'.op = "assign" /\ last'.outcome = "ok" /\ last'.rec = last.rec
        /\ ~read_only(last'.fld)
        /\ ~is_same_value(last'.fld, values'[last'.rec][last'.fld],
                          values[last'.rec][last'.fld]))
        => PayloadOf(DirtyIn(values'[last'.rec], orig'[last'.rec]), values'[last'.rec])
             = {<<column_name(last'.fld),
                  encode_field(last'.fld, values'[last'.rec][last'.fld])>>}]_vars

\* C8: a successful delete() of a persisted record issues exactly one DELETE
\* request, for the identifier the record had, under either context.
C8_DeleteIssuesOneRequest ==
    [][(last'.op = "delete" /\ last'.outcome = "ok")
        => sent' = <<Request("DELETE", id[last'.rec], {})>>]_vars

\* C9: the collection never holds two entries that report the same
\* identifier.
C9_NoTwoEntriesWithSameId ==
    \A i, j \in 1..Len(coll) :
        i < j => ~(LinkId(coll[i]) # NoId /\ LinkId(coll[i]) = LinkId(coll[j]))

\* the identifier i is reported by some entry of items
HoldsId(items, i) == \E k \in 1..Len(items) : LinkId(items[k]) = i

\* C10: adding a record whose identifier is held by an unresolved entry
\* resolves that entry in place, every other entry staying where it is; adding
\* an identifier some entry reports, or a record some entry holds or whose
\* identifier a resolved entry reports, leaves the collection unchanged.
C10_AddUpgradesInPlaceOrLeavesUnchanged ==
    [][/\ (last'.op = "add_record" /\ id[last'.rec] # NoId)
            => \A k \in 1..Len(coll) :
                 (coll[k].rec = NoRec /\ coll[k].lid = id[last'.rec])
                    => /\ Len(coll') = Len(coll)
                       /\ coll'[k] = Link(id[last'.rec], last'.rec)
                       /\ \A j \in 1..Len(coll) : j # k => coll'[j] = coll[j]
       /\ (last'.op = "add_id" /\ HoldsId(coll, last'.lid)) => coll' = coll
       /\ (/\ last'.op = "add_record"
           /\ \E k \in 1..Len(coll) :
                \/ coll[k].rec = last'.rec
                \/ /\ coll[k].rec # NoRec
                   /\ id[last'.rec] # NoId
                   /\ LinkId(coll[k]) = id[last'.rec]
           /\ ~\E k \in 1..Len(coll) :
                coll[k].rec = NoRec /\ coll[k].lid = id[last'.rec] /\ id[last'.rec] # NoId)
            => coll' = coll]_vars

C12_DerefLooksInOwnersBase ==
    [][(/\ last'.op = "deref"
        /\ slink.present /\ slink.rec = NoObj /\ derefs.born = "decoded"
        /\ ~AddressIncomplete(target))
        => /\ last'.outcome = "ok" <=> <<owner.base, slink.lid>> \in store
           /\ last'.outcome = "ok" => objs'[last'.obj].base = owner.base]_vars

\* a is set, b is set, and they are not the same
Differs(a, b) == a # NoBase /\ b # NoBase /\ a # b

\* C14: assigning a record to the link field raises exactly when the record's
\* base is set and differs from the linked class's set base, or its table
\* from the linked class's set table; a raising assignment leaves the field's
\* value as it was and an accepted one makes the field hold the record.
C14_AssignRaisesOnMismatch ==
    [][last'.op = "assign_link"
        => /\ last'.outcome = "ValueError"
                <=> \/ Differs(objs[last'.obj].base, target.base)
                    \/ Differs(objs[last'.obj].table, target.table)
           /\ last'.outcome = "ValueError" => slink' = slink
           /\ last'.outcome = "ok"
                => slink'.present /\ slink'.rec = last'.obj /\ slink'.lid = NoId]_vars

\* a record of the right base and the wrong table was refused while the field
\* held another record
C14_Witness ==
    /\ last.op = "assign_link" /\ last.outcome = "ValueError"
    /\ slink.present /\ slink.rec # last.obj
    /\ objs[last.obj].base = target.base
    /\ Differs(objs[last.obj].table, target.table)

\* the links that are in the collection or could be handed to it
LinksInPlay ==
    {coll[k] : k \in 1..Len(coll)}
        \cup {Link(i, NoRec) : i \in Ids}
        \cup {Link(id[r], r) : r \in {q \in Recs : alive[q]}}

\* C13: two links compare equal exactly when both were given the same
\* identifier, None excepted, or both hold the same record object.
C13_LinksEqualByIdOrByObject ==
    \A a, b \in LinksInPlay :
        LinkEq(a, b)
            <=> \/ a.lid # NoId /\ b.lid # NoId /\ a.lid = b.lid
                \/ a.rec # NoRec /\ b.rec # NoRec /\ a.rec = b.rec

\* a saved record was added again to the collection that held it from before
\* it had an identifier, and was found there
C13_Witness ==
    /\ last.op = "add_record" /\ id[last.rec] # NoId
    /\ coll = <<Link(NoId, last.rec)>>

\* no call of AND is an argument of a call of AND, and none of OR of OR
RECURSIVE Flat(_)
Flat(t) ==
    \A i \in 1..Len(t.args) :
        /\ t.op \in {"AND", "OR"} => t.args[i].op # t.op
        /\ Flat(t.args[i])

\* C20: the formula built for a filter composed with & and | has no AND(...)
\* as a direct argument of AND(...) and no OR(...) as a direct argument of
\* OR(...).
C20_NoSameKindNesting ==
    last.op = "build_formula" => Flat(formula)

\* the number of records the server holds in the first k pages
Held(pages, k) == Len(Concat(pages, k))

\* C18: the k-th request of a listing carries no offset when it is the first
\* and otherwise exactly one, the offset the server gave with page k - 1; it
\* is issued when every record of the pages before has been yielded; there
\* are never more requests than pages; the records yielded are, in order and
\* as distinct objects, the records of the pages in server order, all of them
\* once the listing has ended.
C18_PagesOneByOneInOrder ==
    /\ Len(pager.requests) <= Len(pager.pages)
    /\ \A k \in 1..Len(pager.requests) :
          /\ pager.requests[k].offsets
                = IF k = 1 THEN <<>> ELSE <<OffsetOf(pager.pages, k - 1)>>
          /\ pager.requests[k].yieldedBefore = Held(pager.pages, k - 1)
    /\ Len(pager.yielded) <= Held(pager.pages, Len(pager.pages))
    /\ \A j \in 1..Len(pager.yielded) :
          /\ pager.yielded[j].wid = Concat(pager.pages, Len(pager.pages))[j]
          /\ \A i \in 1..(j - 1) : pager.yielded[i].rec # pager.yielded[j].rec
    /\ pager.pc = "done"
          => /\ Len(pager.yielded) = Held(pager.pages, Len(pager.pages))
             /\ Len(pager.requests) = Len(pager.pages)

\* a listing of three pages, two of them holding a record, has ended
C18_Witness ==
    /\ pager.pc = "done"
    /\ Len(pager.pages) = 3
    /\ Len(pager.requests) = 3
    /\ Len(pager.yielded) = 2
    /\ pager.pages[3] # <<>>

\* C19: under the caching context, right after a fetch, a listing step, a
\* create or an update returns a record, the cache holds that very record
\* under the record's identifier; right after a delete succeeds, the cache
\* holds nothing under the identifier the record had.
C19_CacheHoldsLastStored ==
    [][ctx = "SimpleCaching"
        => /\ (/\ last'.op \in {"fetch", "fetch_many", "create", "update"}
               /\ last'.outcome = "ok")
                => /\ id'[last'.rec] # NoId
                   /\ cache'[id'[last'.rec]] = last'.rec
           /\ (last'.op = "delete" /\ last'.outcome = "ok")
                => cache'[id[last'.rec]] = NoRec]_vars

\* a listing yielded a new record object for an identifier under which the
\* cache held another object, and the cache now holds the new one
C19_Witness ==
    /\ ctx = "SimpleCaching"
    /\ last.op = "fetch_many"
    /\ cache[id[last.rec]] = last.rec
    /\ \E r \in Recs : r # last.rec /\ alive[r] /\ id[r] = id[last.rec]

\* C15: on a query derived from none(), running the iteration ends at once
\* with no record and no request, and get raises KeyError with no request and
\* no record made.
C15_NoneStaysEmpty ==
    [][\A k \in 1..Len(qs) :
         qs[k].fromNone
            => /\ (last'.op = "iterate" /\ last'.q = k)
                    => /\ last'.outcome = "ok" /\ last'.n = 0
                       /\ sent' = <<>>
                       /\ pager' = pager
               /\ \A wid \in Ids :
                    Get(k, wid)
                       => /\ last' = QueryOp("get", k, wid, "KeyError", 0)
                          /\ sent' = <<>>
                          /\ alive' = alive /\ cache' = cache]_vars

\* get raised KeyError on a query made by none() and then filter(...)
C15_Witness ==
    /\ last.op = "get" /\ last.outcome = "KeyError" /\ sent = <<>>
    /\ qs[last.q].fromNone
    /\ qs[last.q].flt # 0

\* C16: running the iteration of a query derived through none of all(),
\* filter() and none() raises ValueError, with no request and no generator
\* started, whatever set_base_id() and set_table_id() calls it came through.
C16_UnscopedIterationRaises ==
    [][(last'.op = "iterate" /\ ~qs[last'.q].scoped)
        => /\ last'.outcome = "ValueError"
           /\ sent' = <<>>
           /\ pager' = pager]_vars

\* the iteration raised on a query whose base and table had both been set
C16_Witness ==
    /\ last.op = "iterate" /\ last.outcome = "ValueError"
    /\ qs[last.q].base # NoBase /\ qs[last.q].table # NoBase

\* C17 (as stated): get on a query with a filter applied raises ValueError
\* and issues no request.
C17_FilteredGetRaisesValueError ==
    [][\A k \in 1..Len(qs), wid \in Ids :
         (qs[k].flt # 0 /\ Get(k, wid))
            => /\ last' = QueryOp("get", k, wid, "ValueError", 0)
               /\ sent' = <<>>]_vars

\* C17 (amended): get on a query that is not empty raises ValueError with no
\* request when a filter is applied, and otherwise looks the identifier up,
\* in the cache or with one GET request for it; get on an empty query raises
\* KeyError with no request, filter or not.
C17_GetRejectsFilterUnlessEmpty ==
    [][\A k \in 1..Len(qs), wid \in Ids :
         Get(k, wid)
            => /\ (~qs[k].empty /\ qs[k].flt # 0)
                    => /\ last' = QueryOp("get", k, wid, "ValueError", 0)
                       /\ sent' = <<>>
                       /\ alive' = alive /\ cache' = cache
               /\ (~qs[k].empty /\ qs[k].flt = 0)
                    => \/ sent' = <<Request("GET", wid, {})>>
                       \/ /\ sent' = <<>>
                          /\ last' = Op("fetch", cache[wid], "", "ok")
                          /\ cache[wid] # NoRec /\ id[cache[wid]] = wid
               /\ qs[k].empty
                    => /\ last' = QueryOp("get", k, wid, "KeyError", 0)
                       /\ sent' = <<>>]_vars

\* get raised ValueError on a filtered query that is not empty
C17_Witness ==
    /\ last.op = "get" /\ last.outcome = "ValueError"
    /\ ~qs[last.q].empty /\ qs[last.q].flt # 0

\* C21: an AND node that has a FalseFilter among its children renders as
\* FALSE(), an OR node that has a TrueFilter among its children renders as
\* TRUE(), whatever the other children are, and an AND node of no children
\* renders as the empty string.
C21_ConstantsAbsorbAndEmptyAnd ==
    last.op = "build_formula"
        => /\ (ftree.k = "and" /\ \E i \in 1..Len(ftree.kids) : ftree.kids[i] = FalseFilter)
                => formula = Atom("FALSE()")
           /\ (ftree.k = "or" /\ \E i \in 1..Len(ftree.kids) : ftree.kids[i] = TrueFilter)
                => formula = Atom("TRUE()")
           /\ (ftree.k = "and" /\ ftree.kids = <<>>) => formula = Empty

\* an AND node of two children was rendered: a negation and a FalseFilter,
\* in that order
C21_Witness ==
    /\ last.op = "build_formula"
    /\ ftree.k = "and" /\ Len(ftree.kids) = 2
    /\ ftree.kids[1].k = "not" /\ ftree.kids[2] = FalseFilter
    /\ formula = Atom("FALSE()")

\* C22: a filter negated n times, by ~ or by NotFilter nodes in any mix,
\* renders as the filter itself when n is even and as one negation of it,
\* spelled either way, when n is odd.
C22_NegationParity ==
    last.op = "build_formula"
        => /\ formula = (IF negs.n % 2 = 0 THEN build_formula(negs.base)
                         ELSE build_formula(NotFilter(negs.base)))
           /\ build_formula(NotFilter(negs.base)) = build_formula(Invert(negs.base))

\* a composite was negated three times, the last two by NotFilter nodes, and
\* rendered
C22_Witness ==
    /\ last.op = "build_formula"
    /\ negs.n = 3 /\ negs.base.k = "or"
    /\ ftree.k = "not" /\ ftree.kids[1].k = "not"
    /\ formula = Call("NOT", <<build_formula(negs.base)>>)

\* C23: a validated value that has been encoded and decoded again is equal,
\* by the field's is_same_value, to the validated value.
C23_RoundTripIsSameValue ==
    /\ trip.stage # "raised"
    /\ trip.stage = "decoded" => is_same_value(trip.fld, trip.back, trip.val)

\* the names some class of the type declares a field under
DeclaredFieldNames == {MroItems[i].attr : i \in {j \in 1..Len(MroItems) : IsField(MroItems[j])}}

\* the declaration of name f nearest to the record's own class
Nearest(f) ==
    MroItems[CHOOSE i \in 1..Len(MroItems) :
                /\ IsField(MroItems[i]) /\ MroItems[i].attr = f
                /\ \A j \in 1..(i - 1) : ~(IsField(MroItems[j]) /\ MroItems[j].attr = f)]

\* C24: the values and the snapshot of every record object have the same
\* keys, the names under which the type or a class it inherits from declares
\* a field; each name is a field of the type once, and by its nearest
\* declaration.
C24_KeySetsAreDeclaredFields ==
    /\ \A r \in Recs :
          alive[r] => /\ DOMAIN values[r] = DeclaredFieldNames
                      /\ DOMAIN orig[r] = DeclaredFieldNames
    /\ \A i, j \in 1..Len(FieldOrder) : i # j => FieldOrder[i] # FieldOrder[j]
    /\ \A i \in 1..Len(iter_fields) :
          /\ iter_fields[i] = Nearest(iter_fields[i].attr)
          /\ FieldType(iter_fields[i].attr) = iter_fields[i].cls

\* a persisted record is hydrated with a wire record whose score cannot be
\* decoded: the name was taken over, the snapshot was not
C24_Witness ==
    /\ last.op = "hydrate" /\ last.outcome = "raised"
    /\ values[last.rec]["name"] = PyStr("x")
    /\ orig[last.rec]["name"] = PyStr("")
    /\ id[last.rec] # NoId

\* the percent-encoded spelling of the table identifiers in use
PercentEncoded(t) ==
    CASE t = "tblLinked" -> "tblLinked"
      [] t = "tblOther" -> "tblOther"
      [] t = "Test Table" -> "Test%20Table"
      [] t = "Q/A?" -> "Q/A%3F"

\* the identifier given to the query when there is one, else the Meta's
Override(mine, meta) == IF mine # NoBase THEN mine ELSE meta

\* C25: set_base_id and set_table_id make a new query that has the
\* identifier given, and leave every query made before, the receiver
\* included, with the base, the table and the URL it had.
C25_SettersLeaveReceiverAlone ==
    [][last'.op \in {"set_base_id", "set_table_id"}
        => /\ Len(qs') = Len(qs) + 1
           /\ \A k \in 1..Len(qs) :
                 /\ qs'[k].base = qs[k].base /\ qs'[k].table = qs[k].table
                 /\ \A rid \in Ids \cup {NoId} : build_url(qs'[k], rid) = build_url(qs[k], rid)
           /\ last'.op = "set_base_id"
                 => /\ qs'[Len(qs')].base # NoBase
                    /\ qs'[Len(qs')].table = qs[last'.q].table
           /\ last'.op = "set_table_id"
                 => /\ qs'[Len(qs')].table # NoBase
                    /\ qs'[Len(qs')].base = qs[last'.q].base]_vars

\* two queries were derived from the query of the record class, one by
\* set_base_id and then one by set_table_id, and that query still has neither
C25_Witness ==
    /\ last.op = "set_table_id" /\ last.q = 1
    /\ Len(qs) = 3
    /\ qs[1].base = NoBase /\ qs[1].table = NoBase
    /\ qs[2].base = "appOther" /\ qs[2].table = NoBase
    /\ qs[3].base = NoBase /\ qs[3].table = "Test Table"

\* C26: build_url raises ValueError when neither the query nor the Meta gives
\* a base, or neither gives a table; otherwise it returns root/base/table,
\* the table percent-encoded, followed by /record when an identifier is
\* given, the query's own base and table going before the Meta's.
C26_UrlOfEffectiveAddress ==
    [][\A k \in 1..Len(qs), rid \in Ids \cup {NoId} :
         BuildUrl(k, rid)
            => IF \/ Override(qs[k].base, target.base) = NoBase
                  \/ Override(qs[k].table, target.table) = NoBase
               THEN last'.outcome = "ValueError" /\ url' = ""
               ELSE /\ last'.outcome = "ok"
                    /\ url' = API_ROOT_URL \o "/" \o Override(qs[k].base, target.base)
                                \o "/" \o PercentEncoded(Override(qs[k].table, target.table))
                                \o (IF rid = NoId THEN "" ELSE "/rec" \o ToString(rid))]_vars

\* the URL of a record was built from a base and a table that both override
\* the Meta's, the table needing quotes
C26_Witness ==
    /\ last.op = "build_url" /\ last.outcome = "ok" /\ last.lid # NoId
    /\ target = Address("appClass", "tblLinked")
    /\ url = "https://api.airtable.com/v0/appOther/Test%20Table/rec2"

\* the filter of query q as the heap of Q objects h has it
FilterOf(q, h) == IF q.flt = 0 THEN NoFilter ELSE h[q.flt]

\* C27: filter(), all() and none() leave every query made before, the
\* receiver included, with the filter, the emptiness and the initialisation
\* it had.
C27_DerivingLeavesQueriesAlone ==
    [][last'.op \in {"filter", "all", "none"}
        => \A k \in 1..Len(qs) :
             /\ FilterOf(qs'[k], fheap') = FilterOf(qs[k], fheap)
             /\ qs'[k].empty = qs[k].empty
             /\ qs'[k].initialised = qs[k].initialised]_vars

\* C28: when the server answers the request of save() with a 4xx status, the
\* call raises after that one request, the identifier, the timestamp, the
\* values and the snapshot of the record (hence its dirty diff) are what they
\* were, and so is the cache.
C28_RefusedSaveChangesNothing ==
    [][last'.op \in {"create", "update"} /\ status' = "4xx"
        => /\ last'.outcome = "raised"
           /\ Len(sent') = 1
           /\ sent'[1].method = (IF last'.op = "create" THEN "POST" ELSE "PATCH")
           /\ UNCHANGED <<id, ts, values, orig, cache>>
           /\ last'.op = "create" => id'[last'.rec] = NoId /\ ~ts'[last'.rec]
           /\ \A r \in Recs :
                 last'.op = "update" /\ last'.rec = r
                    => encode_to_airtable(r, FALSE)' = encode_to_airtable(r, FALSE)]_vars

\* the update of a persisted record with two dirty fields was refused under
\* SimpleCachingContext, the cache holding the record
C28_Witness ==
    /\ last.op = "update" /\ status = "4xx" /\ last.outcome = "raised"
    /\ ctx = "SimpleCaching"
    /\ id[last.rec] # NoId /\ cache[id[last.rec]] = last.rec
    /\ Cardinality(encode_to_airtable(last.rec, FALSE)) = 2

\* field f of the record with mutable values is clean in m
MutableClean(m, f) == MutableSame(m.heap[m.val[f]], m.heap[m.orig[f]])

\* the snapshot of every mutable field is an object other than the value
C29_Distinct == mut.alive => \A f \in MutableNames : mut.val[f] # mut.orig[f]

\* adding to or removing from the value in place leaves every snapshot as it was
C29_Frame ==
    last'.op \in {"add", "discard"}
        => \A f \in MutableNames :
             mut'.orig[f] = mut.orig[f] /\ mut'.heap[mut'.orig[f]] = mut.heap[mut.orig[f]]

\* the value of f is its snapshot with x removed, and x is added back
UndoneByAdd(f, x) ==
    /\ MutAdd(f, x)
    /\ ~MutableSame(ObjectAfterDiscard(mut.heap[mut.orig[f]], x), mut.heap[mut.orig[f]])
    /\ MutableSame(mut.heap[mut.val[f]], ObjectAfterDiscard(mut.heap[mut.orig[f]], x))

\* the value of f is its snapshot with x added, and x is removed again
UndoneByDiscard(f, x) ==
    /\ MutDiscard(f, x)
    /\ ~MutableSame(ObjectAfterAdd(mut.heap[mut.orig[f]], x), mut.heap[mut.orig[f]])
    /\ MutableSame(mut.heap[mut.val[f]], ObjectAfterAdd(mut.heap[mut.orig[f]], x))

\* x is the last entry of collection obj
IsLast(obj, x) == obj.seq # <<>> /\ LinkEq(obj.seq[Len(obj.seq)], Link(x, NoRec))

\* C29 (as stated): the snapshot and the value of a mutable field are
\* distinct objects; adding or removing an element in place never changes a
\* snapshot; and undoing the addition or the removal makes the field clean.
C29_SnapshotIndependentUndoClean ==
    [][/\ C29_Distinct /\ C29_Distinct'
       /\ C29_Frame
       /\ \A f \in MutableNames : \A x \in Elements(f) :
             UndoneByAdd(f, x) \/ UndoneByDiscard(f, x) => MutableClean(mut', f)]_vars

\* C29 (amended): as above, except that adding back an element removed from
\* a multiple record link makes the field clean only when the element was
\* the last entry of the snapshot: the collection is a list, and the element
\* comes back at its end.
C29_SnapshotIndependentUndoCleanInOrder ==
    [][/\ C29_Distinct /\ C29_Distinct'
       /\ C29_Frame
       /\ \A f \in MutableNames : \A x \in Elements(f) :
             /\ UndoneByDiscard(f, x) => MutableClean(mut', f)
             /\ UndoneByAdd(f, x)
                  => (MutableClean(mut', f) <=> (f = "tags" \/ IsLast(mut.heap[mut.orig[f]], x)))]_vars

\* a persisted record has links 1, 2 in value and snapshot alike, in two
\* objects; then 1 was removed and added back: the value is 2, 1 and dirty
C29_Witness ==
    /\ mut.alive /\ mut.persisted
    /\ last.op = "add" /\ last.fld = "links"
    /\ mut.val["links"] # mut.orig["links"]
    /\ mut.heap[mut.orig["links"]] = CollectionObj(<<Link(1, NoRec), Link(2, NoRec)>>)
    /\ mut.heap[mut.val["links"]] = CollectionObj(<<Link(2, NoRec), Link(1, NoRec)>>)
    /\ mut.heap[mut.val["tags"]] = ValueSetObj({"a", "b"})
    /\ MutableClean(mut, "tags")

\* C30: under SimpleCachingContext, when both callers have come back from
\* fetch_single for the same identifier, which the cache did not hold, one
\* GET at most was issued for it and both hold the record the cache holds.
C30_OneFetchOneObject ==
    \A i \in Ids :
        (/\ ctx = "SimpleCaching"
         /\ \A c \in Callers : calls.who[c].pc = "returned" /\ calls.who[c].wid = i)
            => /\ calls.gets[i] <= 1
               /\ \A c \in Callers : calls.who[c].rec = cache[i]

====
